---- MODULE Spec2Model ----
(***************************************************************************)
(* The kinematic physics stage of core/src/physics.rs: the hydration       *)
(* system, the body update system (the "Mover") and the collision world    *)
(* they call; and the Storage resource of src/platform.rs with its backend *)
(* task.                                                                   *)
(*                                                                         *)
(* Lengths and speeds are integers counting tenths of a world unit, so     *)
(* the 0.1 border of the corner probes and the 0.1 offset of the ground    *)
(* probe are 1 and the 1.0 nudge of the de-penetration loop is 10.         *)
(* Factors (bounciness, friction) are integers counting hundredths.        *)
(***************************************************************************)
EXTENDS Integers, Sequences, FiniteSets, TLC

VARIABLES
    tiles,        \* the static tile layout: the Solid cells and the JumpThrough cells
    bodies,       \* Comp<KinematicBody>: entity -> body, for the entities that have one
    transforms,   \* Comp<Transform>: entity -> [x, y]
    colliders,    \* CollisionWorld.colliders: entity -> Collider
    actors,       \* CollisionWorld.actors: the entities with the Actor marker
    cursor,       \* the next system of the physics stage to run; 0 between frames
    halt,         \* "none", or how the running system failed to return: "panic", "stall"
    calls,        \* the collision-world calls and the bounces of the current frame, in order
    warns,        \* the entities a warn! was logged for in the current frame
    shove,        \* entity -> how its de-penetration loop ended in the current frame
    inserted,     \* entity -> how many times a Collider was inserted for it
    pre,          \* the bodies, transforms, colliders and time factor the Mover started with
    ticks,        \* frames run so far
    writes,       \* host writes made so far
    storage,      \* the Storage resource: its data and data_receiver
    requests,     \* the StorageRequests sent to the backend and not yet received by it
    inbox,        \* the load responses waiting in the channel of storage.data_receiver
    file,         \* the storage file: "missing", or its contents
    task,         \* the backend task: "running", or "ended" after a panic
    returned      \* the last call of a Storage method: its number, name, argument, result

physics_vars == <<tiles, bodies, transforms, colliders, actors, cursor, halt, calls, warns,
                  shove, inserted, pre, ticks, writes>>

platform_vars == <<storage, requests, inbox, file, task, returned>>

vars == <<physics_vars, platform_vars>>

---------------------------------------------------------------------------
(* Bounds of the model. *)

MaxEntities == 2

MaxTicks == 3

MaxHostWrites == 1

\* Side of a tile cell, in tenths.
TileSize == 20

Entities == 1 .. MaxEntities

---------------------------------------------------------------------------
(* Constants of the source. *)

\* physics.rs:170: let border = 0.1
Border == 1

\* physics.rs:190-193: translation += / -= 1.0
Nudge == 10

\* physics.rs:258: transform.translation.y -= 0.1
GroundProbeOffset == 1

\* game.physics.*: the tuning configuration read by the Mover.
friction_lerp == 50

stop_threshold == 2

gravity_constant == 1

terminal_velocity == 10

Abs(n) == IF n < 0 THEN -n ELSE n

Sign(n) == IF n < 0 THEN -1 ELSE IF n > 0 THEN 1 ELSE 0

\* v * pct / 100 as the f32 product, rounded toward zero.
Scale(v, pct) == Sign(v * pct) * (Abs(v * pct) \div 100)

---------------------------------------------------------------------------
(* Shapes and tiles. *)

Box(w, h) == [kind |-> "Box", hw |-> w, hh |-> h]

Circle(r) == [kind |-> "Circle", hw |-> r, hh |-> r]

\* KinematicBody::bounding_box: the AABB of the shape around the translation.
bounding_box(t, shape) ==
    [minx |-> t.x - shape.hw, maxx |-> t.x + shape.hw,
     miny |-> t.y - shape.hh, maxy |-> t.y + shape.hh]

TileKinds == {"Solid", "JumpThrough"}

TileCells == tiles.solid \cup tiles.jump

KindOf(c) == IF c \in tiles.solid THEN "Solid" ELSE "JumpThrough"

\* A box that is lined up along the edge of a tile counts as colliding with it.
Touches(r, c) ==
    /\ r.minx <= (c[1] + 1) * TileSize
    /\ r.maxx >= c[1] * TileSize
    /\ r.miny <= (c[2] + 1) * TileSize
    /\ r.maxy >= c[2] * TileSize

\* tile_collision_filtered: the kind of the tiles of `kinds` the shape collides with;
\* Solid wins over JumpThrough.
tile_collision_filtered(t, shape, kinds) ==
    LET hit == {KindOf(c) : c \in {d \in TileCells : Touches(bounding_box(t, shape), d)}}
                   \cap kinds
    IN  IF "Solid" \in hit THEN "Solid"
        ELSE IF "JumpThrough" \in hit THEN "JumpThrough"
        ELSE "Empty"

tile_collision(t, shape) == tile_collision_filtered(t, shape, TileKinds)

\* solid_at: whether the cell that holds the point is Solid; a point on the upper or
\* right edge of a cell belongs to the next cell.
solid_at(x, y) == <<x \div TileSize, y \div TileSize>> \in tiles.solid

---------------------------------------------------------------------------
(* The collision world's operations on one entity.  `w` is the world a     *)
(* system works on: [bodies, transforms, colliders, calls, warns, shove,   *)
(* halt].                                                                  *)

\* Collider { shape, ..default() }
NewCollider(shape) ==
    [shape |-> shape, disabled |-> FALSE, seen_wood |-> FALSE, descent |-> FALSE]

Called(w, fn, e) == [w EXCEPT !.calls = Append(@, <<fn, e>>)]

\* update(transforms): resynchronizes the spatial index; it changes no component.
update(w) == Called(w, "update", 0)

\* handle_teleport(entity): clears the one-way-passage memory.
handle_teleport(w, e) ==
    [Called(w, "handle_teleport", e) EXCEPT
        !.colliders[e].seen_wood = FALSE, !.colliders[e].descent = FALSE]

\* descent(entity): the entity is dropping through jump-through tiles this tick.
descent(w, e) == [Called(w, "descent", e) EXCEPT !.colliders[e].descent = TRUE]

\* The vertical move, one tenth at a time: it stops before the first position that
\* touches a Solid tile; a JumpThrough tile blocks a body from above unless the body is
\* dropping through (descent) or has already passed into it (seen_wood).
RECURSIVE VerticalSteps(_, _, _, _)
VerticalSteps(t, col, left, sign) ==
    IF left = 0 THEN [t |-> t, col |-> col, collided |-> FALSE]
    ELSE LET next == [t EXCEPT !.y = @ + sign]
             kind == tile_collision(next, col.shape)
         IN  IF kind = "Empty" \/ (kind = "JumpThrough" /\ sign > 0)
             THEN VerticalSteps(next, col, left - 1, sign)
             ELSE IF kind = "JumpThrough" /\ (col.descent \/ col.seen_wood)
             THEN VerticalSteps(next, [col EXCEPT !.seen_wood = TRUE], left - 1, sign)
             ELSE [t |-> t, col |-> col, collided |-> TRUE]

\* move_vertical(transforms, entity, dy) -> collided
move_vertical(w, e, dy) ==
    LET r == VerticalSteps(w.transforms[e], w.colliders[e], Abs(dy), Sign(dy))
    IN  [w |-> [Called(w, "move_vertical", e) EXCEPT
                    !.transforms[e] = r.t, !.colliders[e] = r.col],
         collided |-> r.collided]

\* The horizontal move, one tenth at a time: only Solid tiles block it.
RECURSIVE HorizontalSteps(_, _, _, _)
HorizontalSteps(t, shape, left, sign) ==
    IF left = 0 THEN [t |-> t, collided |-> FALSE]
    ELSE LET next == [t EXCEPT !.x = @ + sign]
         IN  IF tile_collision(next, shape) = "Solid"
             THEN [t |-> t, collided |-> TRUE]
             ELSE HorizontalSteps(next, shape, left - 1, sign)

\* move_horizontal(transforms, entity, dx) -> collided; it clears the entity's
\* descent and seen_wood flags.
move_horizontal(w, e, dx) ==
    LET r == HorizontalSteps(w.transforms[e], w.colliders[e].shape, Abs(dx), Sign(dx))
    IN  [w |-> [Called(w, "move_horizontal", e) EXCEPT
                    !.transforms[e] = r.t,
                    !.colliders[e].seen_wood = FALSE,
                    !.colliders[e].descent = FALSE],
         collided |-> r.collided]

---------------------------------------------------------------------------
(* hydrate_physics_bodies (physics.rs:103-125).                            *)

\* A hydration that takes every body, mirrored or not.
needs_hydrate_EveryBody(w) == DOMAIN w.bodies

\* needs_hydrate: the entities with a body and no collider.
needs_hydrate(w) == DOMAIN w.bodies \ DOMAIN w.colliders

\* The loop body: insert the Collider and the Actor marker, then handle_teleport.
HydrateOne(w, e) ==
    handle_teleport(
        [w EXCEPT !.colliders = [x \in DOMAIN @ \cup {e} |->
                                    IF x = e THEN NewCollider(w.bodies[e].shape) ELSE @[x]],
                  !.actors = @ \cup {e},
                  !.inserted[e] = @ + 1],
        e)

RECURSIVE HydrateFrom(_, _)
HydrateFrom(w, e) ==
    IF e > MaxEntities THEN w
    ELSE HydrateFrom(IF e \in needs_hydrate(w) THEN HydrateOne(w, e) ELSE w, e + 1)

---------------------------------------------------------------------------
(* update_kinematic_bodies (physics.rs:128-321), one operator per block of *)
(* the loop body.                                                          *)

\* physics.rs:172-177: the four corner probes <<top left, top right, bottom right,
\* bottom left>>.
CornerProbes(rect) ==
    <<solid_at(rect.minx - Border, rect.maxy + Border),
      solid_at(rect.maxx + Border, rect.maxy + Border),
      solid_at(rect.maxx + Border, rect.miny - Border),
      solid_at(rect.minx - Border, rect.miny - Border)>>

\* A match whose last arm nudges upwards instead of leaving the loop.
MatchCorners_LastArmNudges(c) ==
    IF ~c[1] /\ ~c[2] /\ ~c[3] /\ ~c[4] THEN "warn"
    ELSE IF ~c[1] /\ ~c[2] THEN "up"
    ELSE IF ~c[2] /\ ~c[3] THEN "right"
    ELSE IF ~c[3] /\ ~c[4] THEN "down"
    ELSE IF ~c[1] /\ ~c[4] THEN "left"
    ELSE "up"

\* A match that tests the four nudge patterns in the opposite order.
MatchCorners_Reversed(c) ==
    IF ~c[1] /\ ~c[2] /\ ~c[3] /\ ~c[4] THEN "warn"
    ELSE IF ~c[1] /\ ~c[4] THEN "left"
    ELSE IF ~c[3] /\ ~c[4] THEN "down"
    ELSE IF ~c[2] /\ ~c[3] THEN "right"
    ELSE IF ~c[1] /\ ~c[2] THEN "up"
    ELSE "break"

\* physics.rs:178-199: the arm of the match the probes take, tested in source order.
MatchCorners(c) ==
    IF ~c[1] /\ ~c[2] /\ ~c[3] /\ ~c[4] THEN "warn"
    ELSE IF ~c[1] /\ ~c[2] THEN "up"
    ELSE IF ~c[2] /\ ~c[3] THEN "right"
    ELSE IF ~c[3] /\ ~c[4] THEN "down"
    ELSE IF ~c[1] /\ ~c[4] THEN "left"
    ELSE "break"

\* A nudge whose third and fourth arms push the wrong way.
Nudged_Inwards(t, arm) ==
    IF arm = "up" THEN [t EXCEPT !.y = @ + Nudge]
    ELSE IF arm = "right" THEN [t EXCEPT !.x = @ + Nudge]
    ELSE IF arm = "down" THEN [t EXCEPT !.y = @ + Nudge]
    ELSE IF arm = "left" THEN [t EXCEPT !.x = @ + Nudge]
    ELSE t

\* physics.rs:190-193: the translation after the arm's nudge.
Nudged(t, arm) ==
    IF arm = "up" THEN [t EXCEPT !.y = @ + Nudge]
    ELSE IF arm = "right" THEN [t EXCEPT !.x = @ + Nudge]
    ELSE IF arm = "down" THEN [t EXCEPT !.y = @ - Nudge]
    ELSE IF arm = "left" THEN [t EXCEPT !.x = @ - Nudge]
    ELSE t

\* physics.rs:183-187: the warn! of the first arm; the last arm logs nothing.
Warned(w, e, arm) == IF arm = "warn" THEN [w EXCEPT !.warns = @ \cup {e}] ELSE w

\* physics.rs:159-202: the loop.  Its only state is the entity's translation, so an
\* iteration that starts at a translation an earlier iteration started at repeats
\* for ever: the loop never exits and the system never returns (halt = "stall").
RECURSIVE ShoveLoop(_, _, _)
ShoveLoop(w, e, seen) ==
    LET t == w.transforms[e]
        shape == w.bodies[e].shape
        w1 == Called(w, "tile_collision", e)
    IN  IF tile_collision(t, shape) # "Solid"
        THEN [w1 EXCEPT !.shove[e].end = "clear"]
        ELSE IF t \in seen
        THEN [w1 EXCEPT !.halt = "stall", !.shove[e].end = "never"]
        ELSE LET c == CornerProbes(bounding_box(t, shape))
                 arm == MatchCorners(c)
                 to == Nudged(t, arm)
                 w2 == [Called(w1, "solid_at", e) EXCEPT
                           !.shove[e].iters = Append(@, [at |-> t, corners |-> c, to |-> to]),
                           !.transforms[e] = to]
             IN  IF arm \in {"warn", "break"}
                 THEN [Warned(w2, e, arm) EXCEPT !.shove[e].end = arm]
                 ELSE ShoveLoop(w2, e, seen \cup {t})

\* physics.rs:155-203
ShoveOutOfWalls(w, e) == IF w.bodies[e].has_mass THEN ShoveLoop(w, e, {}) ELSE w

\* A step that gives the body's shape to every Collider.
SyncShape_AllColliders(w, e) ==
    [w EXCEPT !.colliders = [x \in DOMAIN @ |-> [@[x] EXCEPT !.shape = w.bodies[e].shape]]]

\* A step that leaves the Collider's shape as it was.
SyncShape_Skipped(w, e) == w

\* physics.rs:205-209
SyncShape(w, e) == [w EXCEPT !.colliders[e].shape = w.bodies[e].shape]

\* A spawning step that forgets to clear the flag.
Spawning_FlagKept(w, e) == IF w.bodies[e].is_spawning THEN handle_teleport(w, e) ELSE w

\* physics.rs:211-214
Spawning(w, e) ==
    IF w.bodies[e].is_spawning
    THEN [handle_teleport(w, e) EXCEPT !.bodies[e].is_spawning = FALSE]
    ELSE w

\* physics.rs:216-218
Descent(w, e) == IF w.bodies[e].fall_through THEN descent(w, e) ELSE w

\* A vertical move whose bounce reflects both components of the velocity.
MoveVertically_BouncesBoth(w, e, tf) ==
    LET m == move_vertical(w, e, w.bodies[e].velocity.y * tf)
    IN  IF m.collided
        THEN [Called(m.w, "bounce_y", e) EXCEPT
                 !.bodies[e].velocity.y = Scale(@, -w.bodies[e].bounciness),
                 !.bodies[e].velocity.x = Scale(@, -w.bodies[e].bounciness)]
        ELSE m.w

\* physics.rs:223-226
MoveVertically(w, e, tf) ==
    LET m == move_vertical(w, e, w.bodies[e].velocity.y * tf)
    IN  IF m.collided
        THEN [Called(m.w, "bounce_y", e) EXCEPT
                 !.bodies[e].velocity.y = Scale(@, -w.bodies[e].bounciness)]
        ELSE m.w

\* A horizontal move that does not bounce.
MoveHorizontally_NoBounce(w, e, tf) ==
    LET m == move_horizontal(w, e, w.bodies[e].velocity.x * tf)
    IN  IF m.collided THEN Called(m.w, "bounce_x", e) ELSE m.w

\* physics.rs:231-237
MoveHorizontally(w, e, tf) ==
    LET m == move_horizontal(w, e, w.bodies[e].velocity.x * tf)
    IN  IF m.collided
        THEN [Called(m.w, "bounce_x", e) EXCEPT
                 !.bodies[e].velocity.x = Scale(@, -w.bodies[e].bounciness)]
        ELSE m.w

\* A move step that moves horizontally first.
MoveBody_HorizontalFirst(w, e, tf) == MoveVertically(MoveHorizontally(w, e, tf), e, tf)

\* physics.rs:220-238
MoveBody(w, e, tf) == MoveHorizontally(MoveVertically(w, e, tf), e, tf)

\* physics.rs:244-255: a motionless body inside a JumpThrough tile is made to fall
\* through it.
JumpThroughCheck(w, e) ==
    IF w.bodies[e].velocity = [x |-> 0, y |-> 0]
    THEN LET w1 == Called(w, "jump_through_check", e)
         IN  IF tile_collision_filtered(w.transforms[e], w.bodies[e].shape, {"JumpThrough"})
                    = "JumpThrough"
             THEN [w1 EXCEPT !.bodies[e].fall_through = TRUE]
             ELSE w1
    ELSE w

\* A ground probe that sees JumpThrough tiles whatever the Collider's seen_wood is.
GroundTile_SeenWoodIgnored(w, e) ==
    tile_collision_filtered(
        [w.transforms[e] EXCEPT !.y = @ - GroundProbeOffset],
        w.bodies[e].shape,
        TileKinds)

\* physics.rs:264-274: the tile kind found by the ground probe.
GroundTile(w, e) ==
    tile_collision_filtered(
        [w.transforms[e] EXCEPT !.y = @ - GroundProbeOffset],
        w.bodies[e].shape,
        IF w.colliders[e].seen_wood THEN TileKinds \ {"JumpThrough"} ELSE TileKinds)

\* A ground probe that does not look at fall_through.
GroundProbe_FallThroughIgnored(w, e) ==
    LET tile == GroundTile(w, e)
    IN  [Called(w, "ground_probe", e) EXCEPT
            !.bodies[e].was_on_ground = w.bodies[e].is_on_ground,
            !.bodies[e].is_on_ground = tile # "Empty",
            !.bodies[e].is_on_platform = tile = "JumpThrough"]

\* A ground probe that keeps a body grounded once it has been grounded.
GroundProbe_Accumulated(w, e) ==
    LET tile == GroundTile(w, e)
        on_jump_through_tile == tile = "JumpThrough"
        grounded == \/ w.bodies[e].is_on_ground
                    \/ tile # "Empty" /\ ~(on_jump_through_tile /\ w.bodies[e].fall_through)
    IN  [Called(w, "ground_probe", e) EXCEPT
            !.bodies[e].was_on_ground = w.bodies[e].is_on_ground,
            !.bodies[e].is_on_ground = grounded,
            !.bodies[e].is_on_platform = grounded /\ on_jump_through_tile]

\* A ground probe that records was_on_ground after it has overwritten is_on_ground.
GroundProbe_RecordsLate(w, e) ==
    LET tile == GroundTile(w, e)
        on_jump_through_tile == tile = "JumpThrough"
        grounded == tile # "Empty" /\ ~(on_jump_through_tile /\ w.bodies[e].fall_through)
    IN  [Called(w, "ground_probe", e) EXCEPT
            !.bodies[e].was_on_ground = grounded,
            !.bodies[e].is_on_ground = grounded,
            !.bodies[e].is_on_platform = grounded /\ on_jump_through_tile]

\* physics.rs:257-279
GroundProbe(w, e) ==
    LET tile == GroundTile(w, e)
        on_jump_through_tile == tile = "JumpThrough"
        grounded == tile # "Empty" /\ ~(on_jump_through_tile /\ w.bodies[e].fall_through)
    IN  [Called(w, "ground_probe", e) EXCEPT
            !.bodies[e].was_on_ground = w.bodies[e].is_on_ground,
            !.bodies[e].is_on_ground = grounded,
            !.bodies[e].is_on_platform = grounded /\ on_jump_through_tile]

\* A ground check that clears fall_through once the body is on the ground.
GroundCheck_Relatched(w, e) ==
    LET w1 == GroundProbe(JumpThroughCheck(w, e), e)
    IN  IF w1.bodies[e].is_on_ground THEN [w1 EXCEPT !.bodies[e].fall_through = FALSE]
        ELSE w1

\* A ground check that probes the ground before it looks for a motionless body
\* inside a JumpThrough tile.
GroundCheck_ProbeFirst(w, e) == JumpThroughCheck(GroundProbe(w, e), e)

\* physics.rs:240-280
GroundCheck(w, e) == GroundProbe(JumpThroughCheck(w, e), e)

\* A friction that eases the horizontal velocity towards a drift instead of zero.
Friction_Drifts(b) ==
    LET vx == 3 + Scale(b.velocity.x,
                        IF b.frame_friction_override # <<>>
                        THEN b.frame_friction_override[1] ELSE friction_lerp)
    IN  [b EXCEPT !.velocity.x = IF Abs(vx) <= stop_threshold THEN 0 ELSE vx,
                  !.frame_friction_override = <<>>,
                  !.velocity.y = Scale(@, friction_lerp)]

\* A friction that stops a body only strictly below the threshold.
Friction_StopsBelow(b) ==
    LET vx == Scale(b.velocity.x,
                    IF b.frame_friction_override # <<>>
                    THEN b.frame_friction_override[1] ELSE friction_lerp)
    IN  [b EXCEPT !.velocity.x = IF Abs(vx) < stop_threshold THEN 0 ELSE vx,
                  !.frame_friction_override = <<>>,
                  !.velocity.y = Scale(@, friction_lerp)]

\* physics.rs:283-296
Friction(b) ==
    LET vx == Scale(b.velocity.x,
                    IF b.frame_friction_override # <<>>
                    THEN b.frame_friction_override[1] ELSE friction_lerp)
    IN  [b EXCEPT !.velocity.x = IF Abs(vx) <= stop_threshold THEN 0 ELSE vx,
                  !.frame_friction_override = <<>>,
                  !.velocity.y = Scale(@, friction_lerp)]

\* physics.rs:298-300
Settle(b) == IF b.velocity.y <= gravity_constant THEN [b EXCEPT !.velocity.y = 0] ELSE b

\* A ground policy that settles velocity.y of bodies with friction only.
GroundPolicy_SettleWithFriction(w, e) ==
    LET b == w.bodies[e]
    IN  IF b.is_on_ground /\ b.has_friction
        THEN [w EXCEPT !.bodies[e] = Settle(Friction(b))]
        ELSE w

\* physics.rs:282-301
GroundPolicy(w, e) ==
    LET b == w.bodies[e]
    IN  IF b.is_on_ground
        THEN [w EXCEPT !.bodies[e] = Settle(IF b.has_friction THEN Friction(b) ELSE b)]
        ELSE w

\* A gravity that pulls every airborne body, with mass or without.
Gravity_MassIgnored(w, e, tf) ==
    LET b == w.bodies[e]
        vy == b.velocity.y - b.gravity * tf
    IN  IF ~b.is_on_ground
        THEN [w EXCEPT !.bodies[e].velocity.y =
                           IF vy < -terminal_velocity THEN -terminal_velocity ELSE vy]
        ELSE w

\* A gravity without the terminal velocity.
Gravity_Unclamped(w, e, tf) ==
    LET b == w.bodies[e]
    IN  IF ~b.is_on_ground /\ b.has_mass
        THEN [w EXCEPT !.bodies[e].velocity.y = b.velocity.y - b.gravity * tf]
        ELSE w

\* A Mover without gravity.
Gravity_None(w, e, tf) == w

\* physics.rs:303-309
Gravity(w, e, tf) ==
    LET b == w.bodies[e]
        vy == b.velocity.y - b.gravity * tf
    IN  IF ~b.is_on_ground /\ b.has_mass
        THEN [w EXCEPT !.bodies[e].velocity.y =
                           IF vy < -terminal_velocity THEN -terminal_velocity ELSE vy]
        ELSE w

\* lib.rs:46: pub const FPS: f32 = 60.0
FPS == 60

\* physics.rs:324-344: the rotation angle, in degrees modulo 360; one radian is taken
\* as 57 degrees and velocities are in tenths.
apply_rotation(t, velocity, angular_velocity, is_on_ground, collider_shape) ==
    LET turn == IF is_on_ground
                THEN IF collider_shape.kind = "Circle"
                     THEN (Abs(velocity.x) * angular_velocity * 57) \div 10
                     ELSE 0
                ELSE angular_velocity * FPS
    IN  [t EXCEPT !.rot = (@ + turn) % 360]

\* A rotation that spins a grounded body whatever its shape.
Rotation_AnyShape(w, e) ==
    LET b == w.bodies[e]
    IN  IF b.can_rotate
        THEN [w EXCEPT !.transforms[e] =
                 apply_rotation(@, b.velocity, b.angular_velocity, b.is_on_ground, Circle(1))]
        ELSE w

\* physics.rs:311-319
Rotation(w, e) ==
    LET b == w.bodies[e]
    IN  IF b.can_rotate
        THEN [w EXCEPT !.transforms[e] =
                 apply_rotation(@, b.velocity, b.angular_velocity, b.is_on_ground, b.shape)]
        ELSE w

\* physics.rs:205-319: the step of a body that is not deactivated, after the
\* de-penetration loop has returned.
AfterShove(w, e, tf) ==
    Rotation(Gravity(GroundPolicy(GroundCheck(MoveBody(Descent(Spawning(SyncShape(w, e), e),
        e), e, tf), e), e), e, tf), e)

\* A loop body that leaves the Collider's disabled flag as it was.
StepBody_DisabledKept(w, e, tf) ==
    IF e \notin DOMAIN w.colliders THEN [w EXCEPT !.halt = "panic"]
    ELSE IF w.bodies[e].is_deactivated THEN w
    ELSE LET w1 == ShoveOutOfWalls(w, e)
         IN  IF w1.halt # "none" THEN w1 ELSE AfterShove(w1, e, tf)

\* A loop body that disables the Collider of a deactivated body and steps the body
\* all the same.
StepBody_DeactivatedStepped(w, e, tf) ==
    IF e \notin DOMAIN w.colliders THEN [w EXCEPT !.halt = "panic"]
    ELSE LET w1 == ShoveOutOfWalls(
                       [w EXCEPT !.colliders[e].disabled = w.bodies[e].is_deactivated], e)
         IN  IF w1.halt # "none" THEN w1 ELSE AfterShove(w1, e, tf)

\* physics.rs:148-320: the loop body.  colliders.get_mut(entity).unwrap() panics for
\* an entity without a Collider, and transforms.get(entity).copied().unwrap() for an
\* entity without a Transform: in the de-penetration loop (physics.rs:160) when the
\* body has mass, in the ground check (physics.rs:242) at the latest when it has not.
StepBody(w, e, tf) ==
    IF e \notin DOMAIN w.colliders THEN [w EXCEPT !.halt = "panic"]
    ELSE IF w.bodies[e].is_deactivated THEN [w EXCEPT !.colliders[e].disabled = TRUE]
    ELSE IF e \notin DOMAIN w.transforms
    THEN [w EXCEPT !.colliders[e].disabled = FALSE, !.halt = "panic"]
    ELSE LET w1 == ShoveOutOfWalls([w EXCEPT !.colliders[e].disabled = FALSE], e)
         IN  IF w1.halt # "none" THEN w1 ELSE AfterShove(w1, e, tf)

\* physics.rs:147: for (entity, body) in entities.iter_with(&mut bodies), in entity
\* order; a panic or a loop that never exits ends the iteration.
RECURSIVE StepFrom(_, _, _)
StepFrom(w, e, tf) ==
    IF e > MaxEntities \/ w.halt # "none" THEN w
    ELSE StepFrom(IF e \in DOMAIN w.bodies THEN StepBody(w, e, tf) ELSE w, e + 1, tf)

\* A Mover that resynchronizes the collision world after stepping the bodies.
update_kinematic_bodies_UpdateLast(w, tf) == update(StepFrom(w, 1, tf))

\* physics.rs:146-320
update_kinematic_bodies(w, tf) == StepFrom(update(w), 1, tf)

\* physics.rs:103-125
hydrate_physics_bodies(w) == HydrateFrom(Called(w, "hydrate_physics_bodies", 0), 1)

---------------------------------------------------------------------------
(* The inputs: tile layouts with the places bodies are spawned at, and the *)
(* bodies the host spawns.                                                 *)

Row(j, cols) == {<<i, j>> : i \in cols}

Spot(x, y, kind, spawning, fall) ==
    [x |-> x, y |-> y, kind |-> kind, spawning |-> spawning, fall |-> fall]

\* A floor with a wall at its right end, a JumpThrough tile lying on the floor and a
\* JumpThrough tile in the air.
Arena ==
    [solid |-> Row(0, 0 .. 3) \cup {<<3, 1>>},
     jump |-> {<<0, 1>>, <<2, 2>>},
     spots |-> {Spot(30, 27, "player", TRUE, FALSE),
                Spot(10, 27, "player", TRUE, TRUE),
                Spot(50, 50, "player", TRUE, TRUE),
                Spot(50, 67, "player", FALSE, FALSE),
                Spot(50, 66, "player", FALSE, FALSE),
                Spot(50, 27, "ball", FALSE, FALSE),
                Spot(50, 27, "puck", FALSE, FALSE),
                Spot(50, 50, "ghost", FALSE, FALSE)}]

\* A floor and a ceiling one tile apart.
Pinch ==
    [solid |-> Row(0, 0 .. 2) \cup Row(2, 0 .. 2),
     jump |-> {},
     spots |-> {Spot(30, 23, "player", TRUE, FALSE), Spot(30, 23, "tall", TRUE, FALSE)}]

\* Two Solid tiles that meet at a corner.
Diagonal ==
    [solid |-> {<<0, 0>>, <<1, 1>>},
     jump |-> {},
     spots |-> {Spot(20, 20, "player", TRUE, FALSE), Spot(20, 20, "ghost", FALSE, TRUE),
                Spot(30, 48, "spinner", FALSE, FALSE)}]

\* One Solid tile.
Pillar ==
    [solid |-> {<<1, 1>>},
     jump |-> {},
     spots |-> {Spot(30, 30, "player", TRUE, FALSE), Spot(30, 30, "crate", FALSE, FALSE),
                Spot(30, 38, "player", FALSE, FALSE), Spot(22, 38, "player", TRUE, FALSE)}]

\* No tile at all.
Open ==
    [solid |-> {},
     jump |-> {},
     spots |-> {Spot(30, 30, "player", TRUE, FALSE), Spot(30, 30, "ball", FALSE, FALSE),
                Spot(30, 30, "sleeper", FALSE, FALSE)}]

Layouts == {Arena, Pinch, Diagonal, Pillar, Open}

ShapeOf(kind) ==
    IF kind = "ball" THEN Circle(4)
    ELSE IF kind = "tall" THEN Box(4, 11)
    ELSE IF kind = "crate" THEN Box(12, 12)
    ELSE Box(4, 6)

\* KinematicBody { .. }: the body the host spawns for `kind`.
NewBody(kind, spawning, fall) ==
    [velocity |-> IF kind \in {"ball", "puck"} THEN [x |-> 8, y |-> 0]
                  ELSE [x |-> 0, y |-> 0],
     shape |-> ShapeOf(kind),
     angular_velocity |-> IF kind \in {"ball", "spinner"} THEN 1 ELSE 0,
     gravity |-> 2,
     bounciness |-> IF kind \in {"ball", "puck"} THEN 50 ELSE 0,
     frame_friction_override |-> <<>>,
     is_on_ground |-> FALSE,
     was_on_ground |-> FALSE,
     is_on_platform |-> FALSE,
     has_mass |-> kind # "ghost",
     has_friction |-> kind \notin {"ghost", "ball"},
     can_rotate |-> kind \in {"ball", "spinner"},
     is_deactivated |-> kind = "sleeper",
     fall_through |-> fall,
     is_spawning |-> spawning]

\* time.delta() / (1 / FPS): the frame ran at the nominal rate or at half of it.
TimeFactors == {1, 2}

\* idle.rs:93: meta.stats.jump_speed
jump_speed == 9

---------------------------------------------------------------------------
(* Storage (platform.rs:29-233) and its backend task (platform.rs:272-345). *)
(* `p` is the platform a call works on: [storage, requests, inbox, file,   *)
(* task]; a call gives the platform it leaves and its result.              *)

\* Calls of Storage methods in a run.
MaxCalls == 7

\* The storage keys and the values the game keeps under them.
Keys == {"controls", "settings"}

Values == {1, 2}

\* Option<serde_yaml::Value>
None == <<>>

Some(v) == <<v>>

\* StorageData: HashMap<String, serde_yaml::Value>
StorageData == [Keys -> {None} \cup {Some(v) : v \in Values}]

\* HashMap::default()
NoData == [k \in Keys |-> None]

\* serde_yaml::to_value / from_value of an item: an item is kept as the YAML scalar
\* that spells it, and only a scalar that spells an item is read back as one.
to_value(v) == [scalar |-> v]

from_value(y) ==
    IF y.scalar \in Values THEN [ok |-> TRUE, value |-> y.scalar]
    ELSE [ok |-> FALSE, value |-> 0]

\* serde_yaml::to_string: the document lists one entry per key that has a value.
KeyOrder == <<"controls", "settings">>

to_string(m) ==
    LET Held(k) == m[k] # None
        held == SelectSeq(KeyOrder, Held)
    IN  [i \in 1 .. Len(held) |-> <<held[i], m[held[i]][1].scalar>>]

\* serde_yaml::from_slice: a document is a map when each entry has a key of its own
\* and a scalar; the map holds the entries' values and nothing else.
from_slice(bytes) ==
    LET wellFormed == /\ \A i \in 1 .. Len(bytes) : bytes[i][1] \in Keys
                      /\ \A i \in 1 .. Len(bytes), j \in 1 .. Len(bytes) :
                             bytes[i][1] = bytes[j][1] => i = j
    IN  IF wellFormed
        THEN [ok |-> TRUE,
              data |-> [k \in Keys |->
                           IF \E i \in 1 .. Len(bytes) : bytes[i][1] = k
                           THEN Some(to_value(
                                    bytes[CHOOSE i \in 1 .. Len(bytes) : bytes[i][1] = k][2]))
                           ELSE None]]
        ELSE [ok |-> FALSE, data |-> NoData]

\* A storage file that is no YAML map.
Garbage == <<<<"%", 0>>>>

NoFile == [exists |-> FALSE, contents |-> <<>>]

FileOf(bytes) == [exists |-> TRUE, contents |-> bytes]

\* Storage::default(), platform.rs:44-54
DefaultStorage == [data |-> None, data_receiver |-> None]

NoInbox == [data |-> <<>>, saved |-> {}]

\* What a method returns: Ok with the value's numbers, an Err of StorageError, or a
\* bool.
Ok(v) == [is |-> "Ok", value |-> v]

Err(e) == [is |-> e, value |-> <<>>]

Bool(b) == [is |-> IF b THEN "true" ELSE "false", value |-> <<>>]

\* backend_sender.try_send(request): it fails once the task has ended and dropped
\* the receiver.
try_send(p, request) ==
    IF p.task = "running"
    THEN [p |-> [p EXCEPT !.requests = Append(@, request)], ok |-> TRUE]
    ELSE [p |-> p, ok |-> FALSE]

\* platform.rs:68-78
check_pending_data_load(p) ==
    IF p.storage.data_receiver # None /\ p.inbox.data # <<>>
    THEN [p EXCEPT !.storage.data = Some(Head(p.inbox.data)),
                   !.storage.data_receiver = None,
                   !.inbox.data = <<>>]
    ELSE p

\* platform.rs:83-87
is_loaded(p) ==
    LET p1 == check_pending_data_load(p)
    IN  [p |-> p1, ret |-> Bool(p1.storage.data # None)]

\* A load that does not keep the receiver of the channel it has made.
try_load_ReceiverDropped(p, n) ==
    LET sent == try_send(p, [op |-> "Load", result_sender |-> n, data |-> NoData])
    IN  [p |-> sent.p, ret |-> IF sent.ok THEN Ok(<<>>) ELSE Err("BackendLost")]

\* platform.rs:93-103: call number n names the new result channel; the old
\* receiver is dropped with what waits in it.
try_load(p, n) ==
    LET p1 == [p EXCEPT !.storage.data_receiver = Some(n), !.inbox.data = <<>>]
        sent == try_send(p1, [op |-> "Load", result_sender |-> n, data |-> NoData])
    IN  [p |-> sent.p, ret |-> IF sent.ok THEN Ok(<<>>) ELSE Err("BackendLost")]

\* platform.rs:119-138
try_get(p, key) ==
    LET p1 == check_pending_data_load(p)
        value == p1.storage.data[1][key]
    IN  [p |-> p1,
         ret |-> IF p1.storage.data = None THEN Err("NotLoaded")
                 ELSE IF value = None THEN Ok(None)
                 ELSE IF from_value(value[1]).ok
                 THEN Ok(Some(from_value(value[1]).value))
                 ELSE Err("SerializationError")]

\* platform.rs:165-179
try_set(p, key, value) ==
    LET p1 == check_pending_data_load(p)
    IN  IF p1.storage.data = None THEN [p |-> p1, ret |-> Err("NotLoaded")]
        ELSE [p |-> [p1 EXCEPT !.storage.data[1][key] = Some(to_value(value))],
              ret |-> Ok(<<>>)]

\* A save that sends what it has, loaded or not.
try_save_Unguarded(p, n) ==
    LET p1 == check_pending_data_load(p)
        sent == try_send(p1, [op |-> "Save", result_sender |-> n,
                              data |-> IF p1.storage.data = None THEN NoData
                                       ELSE p1.storage.data[1]])
    IN  [p |-> sent.p,
         ret |-> IF sent.ok THEN Ok(<<n>>) ELSE Err("BackendLost")]

\* platform.rs:201-218: call number n names the SaveTask's channel.
try_save(p, n) ==
    LET p1 == check_pending_data_load(p)
        sent == try_send(p1, [op |-> "Save", result_sender |-> n,
                              data |-> p1.storage.data[1]])
    IN  IF p1.storage.data = None THEN [p |-> p1, ret |-> Err("NotLoaded")]
        ELSE [p |-> sent.p,
              ret |-> IF sent.ok THEN Ok(<<n>>) ELSE Err("BackendLost")]

\* platform.rs:293-319: the task handles a Load request; the response is dropped
\* when its receiver is gone.
HandleLoad(p, request) ==
    LET data == IF p.file.exists THEN from_slice(p.file.contents).data ELSE NoData
    IN  IF p.storage.data_receiver = Some(request.result_sender)
        THEN [p EXCEPT !.inbox.data = Append(@, data)]
        ELSE p

\* A task that saves the data the Storage holds when the request is handled.
HandleSave_WritesCurrent(p, request) ==
    [p EXCEPT !.file = FileOf(to_string(IF p.storage.data = None THEN request.data
                                       ELSE p.storage.data[1])),
              !.inbox.saved = @ \cup {request.result_sender}]

\* platform.rs:320-338: the task handles a Save request.
HandleSave(p, request) ==
    [p EXCEPT !.file = FileOf(to_string(request.data)),
              !.inbox.saved = @ \cup {request.result_sender}]

\* A task that takes the request sent last.
HandleRequest_NewestFirst(p) ==
    LET request == p.requests[Len(p.requests)]
        p1 == [p EXCEPT !.requests = SubSeq(@, 1, Len(@) - 1)]
    IN  IF request.op = "Load" THEN HandleLoad(p1, request) ELSE HandleSave(p1, request)

\* platform.rs:291-340: one turn of the task's loop.
HandleRequest(p) ==
    LET request == Head(p.requests)
        p1 == [p EXCEPT !.requests = Tail(@)]
    IN  IF request.op = "Load" THEN HandleLoad(p1, request) ELSE HandleSave(p1, request)

---------------------------------------------------------------------------
(* The state machine: the host's systems write bodies between two runs of  *)
(* the physics stage; the stage runs its systems in the order install      *)
(* added them.                                                             *)

\* A stage whose systems were added in the other order.
PhysicsStage_MoverFirst == <<"update_kinematic_bodies", "hydrate_physics_bodies">>

\* install (physics.rs:36-41): the systems of PhysicsStage::Update, in order.
PhysicsStage == <<"hydrate_physics_bodies", "update_kinematic_bodies">>

Empty == [e \in {} |-> 0]

NoShove == [e \in Entities |-> [iters |-> <<>>, end |-> "none"]]

\* No Storage method has been called.
NoTrip == [stage |-> 0, key |-> "", value |-> 0, clean |-> FALSE]

NoCall ==
    [n |-> 0, op |-> "", arg |-> <<>>, ret |-> [is |-> "", value |-> <<>>], trip |-> NoTrip]

NoPre == [bodies |-> Empty, transforms |-> Empty, colliders |-> Empty, tf |-> 0]

Init ==
    /\ tiles \in Layouts
    /\ bodies = Empty
    /\ transforms = Empty
    /\ colliders = Empty
    /\ actors = {}
    /\ cursor = 1
    /\ halt = "none"
    /\ calls = <<>>
    /\ warns = {}
    /\ shove = NoShove
    /\ inserted = [e \in Entities |-> 0]
    /\ pre = NoPre
    /\ ticks = 0
    /\ writes = 0
    /\ storage = DefaultStorage
    /\ requests = <<>>
    /\ inbox = NoInbox
    /\ file = NoFile
    /\ task = "running"
    /\ returned = NoCall

\* The stage is not running.
BetweenFrames == halt = "none" /\ cursor \in {1, Len(PhysicsStage) + 1}

\* The system that runs next and, for the first of a frame, the frame's empty logs.
Slot == IF cursor > Len(PhysicsStage) THEN 1 ELSE cursor

CanRun(system) ==
    /\ halt = "none"
    /\ PhysicsStage[Slot] = system
    /\ Slot = 1 => ticks < MaxTicks

World ==
    [bodies |-> bodies, transforms |-> transforms, colliders |-> colliders,
     actors |-> actors, inserted |-> inserted,
     calls |-> IF Slot = 1 THEN <<>> ELSE calls,
     warns |-> IF Slot = 1 THEN {} ELSE warns,
     shove |-> IF Slot = 1 THEN NoShove ELSE shove,
     halt |-> "none"]

Commit(w) ==
    /\ bodies' = w.bodies
    /\ transforms' = w.transforms
    /\ colliders' = w.colliders
    /\ actors' = w.actors
    /\ inserted' = w.inserted
    /\ calls' = w.calls
    /\ warns' = w.warns
    /\ shove' = w.shove
    /\ halt' = w.halt
    /\ cursor' = IF w.halt = "none" THEN Slot + 1 ELSE Slot
    /\ ticks' = IF Slot = 1 THEN ticks + 1 ELSE ticks
    /\ UNCHANGED <<tiles, writes>>
    /\ UNCHANGED platform_vars

RunHydrate ==
    /\ CanRun("hydrate_physics_bodies")
    /\ Commit(hydrate_physics_bodies(World))
    /\ pre' = IF Slot = 1 THEN NoPre ELSE pre

RunUpdate ==
    /\ CanRun("update_kinematic_bodies")
    /\ \E tf \in TimeFactors :
          /\ Commit(update_kinematic_bodies(World, tf))
          /\ pre' = [bodies |-> bodies, transforms |-> transforms, colliders |-> colliders,
                      tf |-> tf]

\* A host system ran: the frame that follows starts with empty logs.
HostWrote ==
    /\ cursor' = 1
    /\ calls' = <<>>
    /\ warns' = {}
    /\ shove' = NoShove
    /\ pre' = NoPre
    /\ UNCHANGED <<tiles, colliders, actors, inserted, halt, ticks>>
    /\ UNCHANGED platform_vars

\* The host spawns a body, with its Transform, at one of the layout's spots.
Spawn ==
    /\ BetweenFrames
    /\ Cardinality(DOMAIN bodies) < MaxEntities
    /\ \E spot \in tiles.spots :
          LET e == Cardinality(DOMAIN bodies) + 1
          IN  /\ bodies' = (e :> NewBody(spot.kind, spot.spawning, spot.fall)) @@ bodies
              /\ transforms' = (e :> [x |-> spot.x, y |-> spot.y, rot |-> 0]) @@ transforms
    /\ HostWrote
    /\ UNCHANGED writes

\* A host system writes a field of a body.
Write(e, field, value) ==
    /\ BetweenFrames
    /\ writes < MaxHostWrites
    /\ e \in DOMAIN bodies
    /\ bodies[e][field] # value
    /\ bodies' = [bodies EXCEPT ![e][field] = value]
    /\ writes' = writes + 1
    /\ HostWrote
    /\ UNCHANGED transforms

\* idle.rs:88-96: the idle player stops, and jumps when asked to.
Idle ==
    \E e \in DOMAIN bodies, jump \in BOOLEAN :
        Write(e, "velocity",
              [x |-> 0, y |-> IF jump THEN jump_speed ELSE bodies[e].velocity.y])

SetFallThrough == \E e \in DOMAIN bodies, b \in BOOLEAN : Write(e, "fall_through", b)

SetDeactivated == \E e \in DOMAIN bodies, b \in BOOLEAN : Write(e, "is_deactivated", b)

SetSpawning == \E e \in DOMAIN bodies : Write(e, "is_spawning", TRUE)

SetShape == \E e \in DOMAIN bodies : Write(e, "shape", Box(4, 11))

SetFrictionOverride == \E e \in DOMAIN bodies : Write(e, "frame_friction_override", <<100>>)

Walk == \E e \in DOMAIN bodies, vx \in {-8, 8} :
    Write(e, "velocity", [x |-> vx, y |-> bodies[e].velocity.y])

Next ==
    \/ RunHydrate
    \/ RunUpdate
    \/ Spawn
    \/ Idle
    \/ Walk
    \/ SetFallThrough
    \/ SetDeactivated
    \/ SetSpawning
    \/ SetShape
    \/ SetFrictionOverride

Spec == Init /\ [][Next]_vars

---------------------------------------------------------------------------
(* The ground check (physics.rs:240-280) as a function of what it reads:   *)
(* a body is put at a place with the flags and the Collider latch drawn    *)
(* from all their values, and the ground check of its step is run.         *)

ProbePlaces == {10, 30, 50} \X {26, 27, 28, 46, 47, 50, 66, 67, 68}

ProbeVelocities == {[x |-> 0, y |-> 0], [x |-> 8, y |-> 0], [x |-> 0, y |-> -4]}

ProbeInit ==
    /\ tiles \in {Arena, Open}
    /\ \E place \in ProbePlaces, v \in ProbeVelocities,
          fall \in BOOLEAN, wood \in BOOLEAN, ground \in BOOLEAN :
          /\ bodies = (1 :> [NewBody("player", FALSE, fall) EXCEPT
                                !.velocity = v, !.is_on_ground = ground])
          /\ transforms = (1 :> [x |-> place[1], y |-> place[2], rot |-> 0])
          /\ colliders = (1 :> [NewCollider(ShapeOf("player")) EXCEPT !.seen_wood = wood])
    /\ actors = {1}
    /\ cursor = 1
    /\ halt = "none"
    /\ calls = <<>>
    /\ warns = {}
    /\ shove = NoShove
    /\ inserted = [e \in Entities |-> IF e = 1 THEN 1 ELSE 0]
    /\ pre = NoPre
    /\ ticks = 0
    /\ writes = 0
    /\ storage = DefaultStorage
    /\ requests = <<>>
    /\ inbox = NoInbox
    /\ file = NoFile
    /\ task = "running"
    /\ returned = NoCall

\* physics.rs:240-280 for the body, as the Mover runs it in the body's step.
RunGroundCheck ==
    /\ ticks = 0
    /\ Commit(GroundCheck(World, 1))
    /\ pre' = [bodies |-> bodies, transforms |-> transforms, colliders |-> colliders,
               tf |-> 1]

ProbeNext == RunGroundCheck

ProbeSpec == ProbeInit /\ [][ProbeNext]_vars

---------------------------------------------------------------------------
(* The de-penetration loop (physics.rs:155-203) as a function of the place *)
(* of a has_mass body among the tiles: the body is drawn and the loop is   *)
(* run on it once.                                                         *)

ShovePlaces == {12, 16, 20, 24, 28, 30, 32, 36, 40, 44, 48}

ShoveInit ==
    /\ tiles \in {Arena, Pinch, Diagonal, Pillar}
    /\ \E x \in ShovePlaces, y \in ShovePlaces, kind \in {"player", "crate"} :
          /\ bodies = (1 :> NewBody(kind, FALSE, FALSE))
          /\ transforms = (1 :> [x |-> x, y |-> y, rot |-> 0])
          /\ colliders = (1 :> NewCollider(ShapeOf(kind)))
    /\ actors = {1}
    /\ cursor = 1
    /\ halt = "none"
    /\ calls = <<>>
    /\ warns = {}
    /\ shove = NoShove
    /\ inserted = [e \in Entities |-> IF e = 1 THEN 1 ELSE 0]
    /\ pre = NoPre
    /\ ticks = 0
    /\ writes = 0
    /\ storage = DefaultStorage
    /\ requests = <<>>
    /\ inbox = NoInbox
    /\ file = NoFile
    /\ task = "running"
    /\ returned = NoCall

\* physics.rs:155-203 for the body, as the Mover runs it in the body's step.
RunShove ==
    /\ ticks = 0
    /\ halt = "none"
    /\ Commit(ShoveOutOfWalls(World, 1))
    /\ pre' = [bodies |-> bodies, transforms |-> transforms, colliders |-> colliders,
               tf |-> 1]

ShoveNext == RunShove

ShoveSpec == ShoveInit /\ [][ShoveNext]_vars

---------------------------------------------------------------------------
(* The two systems on worlds in which a KinematicBody may lack a Transform: *)
(* two bodies are drawn, each with or without a Transform, and the stage is *)
(* run tick after tick.                                                     *)

BareInit ==
    /\ tiles \in Layouts
    /\ \E s1 \in tiles.spots, s2 \in tiles.spots, bare \in SUBSET {1, 2} :
          LET spot == <<s1, s2>>
          IN  /\ bodies = [e \in {1, 2} |->
                              NewBody(spot[e].kind, spot[e].spawning, spot[e].fall)]
              /\ transforms = [e \in {1, 2} \ bare |->
                                  [x |-> spot[e].x, y |-> spot[e].y, rot |-> 0]]
    /\ colliders = Empty
    /\ actors = {}
    /\ cursor = 1
    /\ halt = "none"
    /\ calls = <<>>
    /\ warns = {}
    /\ shove = NoShove
    /\ inserted = [e \in Entities |-> 0]
    /\ pre = NoPre
    /\ ticks = 0
    /\ writes = 0
    /\ storage = DefaultStorage
    /\ requests = <<>>
    /\ inbox = NoInbox
    /\ file = NoFile
    /\ task = "running"
    /\ returned = NoCall

BareNext == RunHydrate \/ RunUpdate

BareSpec == BareInit /\ [][BareNext]_vars

---------------------------------------------------------------------------
(* The state machine of the platform: the game calls the methods of the    *)
(* Storage resource and the backend task takes the requests one by one.    *)

\* The storage files a run may start with.
Files == {NoFile, FileOf(Garbage), FileOf(<<<<"settings", 1>>>>)}

\* game_plugin (platform.rs:18-22) before its call of load: Storage::default().
PlatformInit ==
    /\ tiles = Open
    /\ bodies = Empty
    /\ transforms = Empty
    /\ colliders = Empty
    /\ actors = {}
    /\ cursor = 1
    /\ halt = "none"
    /\ calls = <<>>
    /\ warns = {}
    /\ shove = NoShove
    /\ inserted = [e \in Entities |-> 0]
    /\ pre = NoPre
    /\ ticks = 0
    /\ writes = 0
    /\ storage = DefaultStorage
    /\ requests = <<>>
    /\ inbox = NoInbox
    /\ file \in Files
    /\ task = "running"
    /\ returned = NoCall

Platform ==
    [storage |-> storage, requests |-> requests, inbox |-> inbox, file |-> file,
     task |-> task]

Left(p) ==
    /\ storage' = p.storage
    /\ requests' = p.requests
    /\ inbox' = p.inbox
    /\ file' = p.file
    /\ task' = p.task
    /\ UNCHANGED physics_vars

\* How far the calls made so far are into the sequence set(k, v); save(); load();
\* get(k), each call returning Ok and is_loaded allowed while the load is awaited.
\* `clean` tells that no load was awaiting its response when set returned.
Track(trip, op, arg, r) ==
    IF op = "try_set" /\ r.ret.is = "Ok"
    THEN [stage |-> 1, key |-> arg[1], value |-> arg[2],
          clean |-> r.p.storage.data_receiver = None]
    ELSE IF op = "try_save" /\ r.ret.is = "Ok" /\ trip.stage = 1
    THEN [trip EXCEPT !.stage = 2]
    ELSE IF op = "try_load" /\ r.ret.is = "Ok" /\ trip.stage = 2
    THEN [trip EXCEPT !.stage = 3]
    ELSE IF op = "is_loaded" /\ trip.stage = 3
    THEN trip
    ELSE IF op = "try_get" /\ trip.stage = 3 /\ arg = <<trip.key>>
    THEN [trip EXCEPT !.stage = 4]
    ELSE NoTrip

\* The game calls a method: `r` is what the method leaves and returns.
Return(op, arg, r) ==
    /\ returned.n < MaxCalls
    /\ Left(r.p)
    /\ returned' = [n |-> returned.n + 1, op |-> op, arg |-> arg, ret |-> r.ret,
                    trip |-> Track(returned.trip, op, arg, r)]

CallIsLoaded == Return("is_loaded", <<>>, is_loaded(Platform))

CallTryLoad == Return("try_load", <<>>, try_load(Platform, returned.n + 1))

CallTryGet == \E k \in Keys : Return("try_get", <<k>>, try_get(Platform, k))

CallTrySet ==
    \E k \in Keys, v \in Values : Return("try_set", <<k, v>>, try_set(Platform, k, v))

CallTrySave == Return("try_save", <<>>, try_save(Platform, returned.n + 1))

\* platform.rs:291: receiver.recv().await gave the task the next request.
BackendTurn ==
    /\ task = "running"
    /\ requests # <<>>
    /\ Left(HandleRequest(Platform))
    /\ UNCHANGED returned

\* One of the task's expect()s on the file system failed (platform.rs:298, 301, 326,
\* 333, 335): the task ends with the request it was handling and drops the channel;
\* a Save that fails after opening the file leaves the file truncated.
BackendPanics ==
    /\ task = "running"
    /\ requests # <<>>
    /\ \E truncated \in BOOLEAN :
          /\ truncated => Head(requests).op = "Save"
          /\ Left([Platform EXCEPT !.task = "ended", !.requests = <<>>,
                                   !.file = IF truncated THEN FileOf(<<>>) ELSE @])
    /\ UNCHANGED returned

Calls ==
    \/ CallIsLoaded
    \/ CallTryLoad
    \/ CallTryGet
    \/ CallTrySet
    \/ CallTrySave

PlatformNext ==
    \/ Calls
    \/ BackendTurn
    \/ BackendPanics

PlatformSpec == PlatformInit /\ [][PlatformNext]_vars

\* The backend task keeps running: it is scheduled by the I/O task pool whenever a
\* request waits, and no file operation of it fails.
PlatformRunning ==
    /\ PlatformInit
    /\ [][Calls \/ BackendTurn]_vars
    /\ WF_vars(BackendTurn)

---------------------------------------------------------------------------
(* What the claims speak of.                                               *)

\* The physics stage has run all its systems and the host has not written since.
TickDone == halt = "none" /\ cursor = Len(PhysicsStage) + 1

\* The Mover has been entered in the current frame: it returned, or it never will.
MoverEntered == cursor = Len(PhysicsStage) + 1 \/ halt # "none"

Places(fn, e) == {i \in 1 .. Len(calls) : calls[i] = <<fn, e>>}

\* The calls the Mover made, in order: those that follow its call of update.
MoverCalls ==
    IF Places("update", 0) = {} THEN <<>>
    ELSE LET first == CHOOSE i \in Places("update", 0) : \A j \in Places("update", 0) : i <= j
         IN  SubSeq(calls, first + 1, Len(calls))

\* The calls among `fns` the Mover made for entity e, in order.
StepCalls(e, fns) ==
    LET Mine(c) == c[2] = e /\ c[1] \in fns
        mine == SelectSeq(MoverCalls, Mine)
    IN  [i \in 1 .. Len(mine) |-> mine[i][1]]

\* The bodies the Mover stepped as active bodies in the current frame.
Stepped == {e \in DOMAIN pre.bodies : ~pre.bodies[e].is_deactivated}

OrderedCalls == {"handle_teleport", "descent", "move_vertical", "move_horizontal",
                 "ground_probe"}

Queries == {"tile_collision", "solid_at", "move_vertical", "move_horizontal",
            "jump_through_check", "ground_probe"}

\* C1: at the end of a tick, the calls made in an active body's step are, in this
\* order and once each: handle_teleport if is_spawning was set, descent if
\* fall_through was set, move_vertical, move_horizontal, the ground probe.
C1_StepOrder ==
    TickDone =>
        \A e \in Stepped :
            StepCalls(e, OrderedCalls) =
                (IF pre.bodies[e].is_spawning THEN <<"handle_teleport">> ELSE <<>>)
                \o (IF pre.bodies[e].fall_through THEN <<"descent">> ELSE <<>>)
                \o <<"move_vertical", "move_horizontal", "ground_probe">>

C1_Witness ==
    /\ TickDone
    /\ \E e \in Stepped : pre.bodies[e].is_spawning /\ pre.bodies[e].fall_through
    /\ \E e \in Stepped : ~pre.bodies[e].is_spawning /\ ~pre.bodies[e].fall_through

\* C2: once hydration has run in a frame, every entity with a body has a Collider
\* that was inserted exactly once and the Actor marker, and the Collider hydration
\* has just inserted has the body's shape; no Collider is ever inserted twice.
C2_OneCollider ==
    /\ \A e \in Entities : inserted[e] <= 1
    /\ (halt = "none" /\ cursor > 1) =>
          \A e \in DOMAIN bodies :
              /\ e \in DOMAIN colliders
              /\ e \in actors
              /\ inserted[e] = 1
              /\ (cursor = 2 /\ Places("handle_teleport", e) # {}) =>
                     colliders[e].shape = bodies[e].shape

C2_Witness ==
    /\ halt = "none"
    /\ cursor = 2
    /\ ticks > 1
    /\ \E e \in DOMAIN bodies : Places("handle_teleport", e) # {} /\ bodies[e].shape = Box(4, 11)
    /\ \E e \in DOMAIN bodies : Places("handle_teleport", e) = {}

\* C3: the Mover never panics on a missing Collider: whenever it has run, hydration
\* ran before it in the same frame and every body it found had a Collider.
C3_HydratedFirst ==
    /\ halt # "panic"
    /\ MoverEntered =>
          /\ Places("hydrate_physics_bodies", 0) # {}
          /\ \A i \in Places("hydrate_physics_bodies", 0), j \in Places("update", 0) : i < j
          /\ DOMAIN pre.bodies \subseteq DOMAIN pre.colliders

C3_Witness ==
    /\ TickDone
    /\ ticks > 1
    /\ \E e \in Stepped : Places("handle_teleport", e) # {} /\ ~pre.bodies[e].is_spawning
    /\ \E e \in Stepped : Places("handle_teleport", e) = {}

\* C4: whenever the Mover has run in a frame, update was called exactly once in that
\* frame and before every query of the frame.
C4_UpdateOnceFirst ==
    MoverEntered =>
        /\ Cardinality(Places("update", 0)) = 1
        /\ \A i \in 1 .. Len(calls) :
               calls[i][1] \in Queries => \A j \in Places("update", 0) : j < i

C4_Witness ==
    /\ TickDone
    /\ Cardinality(Stepped) = 2
    /\ \E e \in Stepped : Places("solid_at", e) # {}
    /\ \E e \in Stepped : Places("jump_through_check", e) # {}

\* C5: the de-penetration loop always exits, so the Mover always returns.
C5_ShoveTerminates == halt # "stall"

\* The corner probes leave no pair of adjacent corners clear, and one corner at
\* least is solid: no nudge arm of the match takes them.
NoPattern(c) ==
    /\ c[1] \/ c[2]
    /\ c[2] \/ c[3]
    /\ c[3] \/ c[4]
    /\ c[4] \/ c[1]

\* C6: an iteration of the de-penetration loop whose corner probes match no nudge
\* pattern is the loop's last, leaves the body where it was, overlapping a Solid
\* tile; nothing panics, the rest of the body's step is run, and at the end of the
\* tick every active body has had its step.
C6_GiveUpGoesOn ==
    MoverEntered =>
        \A e \in Stepped :
            \A i \in 1 .. Len(shove[e].iters) :
                LET it == shove[e].iters[i]
                IN  NoPattern(it.corners) =>
                        /\ i = Len(shove[e].iters)
                        /\ shove[e].end = "break"
                        /\ it.to = it.at
                        /\ tile_collision(it.at, pre.bodies[e].shape) = "Solid"
                        /\ halt # "panic"
                        /\ StepCalls(e, {"move_vertical", "move_horizontal", "ground_probe"})
                               = <<"move_vertical", "move_horizontal", "ground_probe">>
                        /\ TickDone =>
                               \A o \in Stepped :
                                   StepCalls(o, {"ground_probe"}) = <<"ground_probe">>

C6_Witness ==
    /\ TickDone
    /\ \E e \in Stepped, o \in Stepped :
          /\ o > e
          /\ shove[e].end = "break"
          /\ shove[e].iters[Len(shove[e].iters)].corners = <<TRUE, TRUE, TRUE, TRUE>>
          /\ StepCalls(o, {"ground_probe"}) = <<"ground_probe">>

\* C7: a de-penetration loop that gives up, whatever the corner probes were, logs a
\* warning for the body.
C7_GiveUpWarns ==
    \A e \in Entities : shove[e].end \in {"warn", "break"} => e \in warns

\* The tile kind under the ground probe of e, whatever the Collider's latch says.
UnderProbe(e) ==
    tile_collision([transforms[e] EXCEPT !.y = @ - GroundProbeOffset], bodies[e].shape)

\* C8: at the end of a tick, an active body with fall_through set and a JumpThrough
\* tile under its ground probe is neither on the ground nor on a platform.
C8_FallThroughAirborne ==
    TickDone =>
        \A e \in Stepped :
            (bodies[e].fall_through /\ UnderProbe(e) = "JumpThrough") =>
                ~bodies[e].is_on_ground /\ ~bodies[e].is_on_platform

C8_Witness ==
    /\ TickDone
    /\ \E e \in Stepped :
          /\ pre.bodies[e].fall_through
          /\ pre.bodies[e].velocity.y < 0
          /\ ~pre.bodies[e].is_on_ground
          /\ UnderProbe(e) = "JumpThrough"
          /\ ~bodies[e].is_on_ground

\* Hydration inserted the Collider of e in the current frame: this is e's first tick.
HydratedNow(e) ==
    \E i \in Places("handle_teleport", e) : \A j \in Places("update", 0) : i < j

\* e went into its first tick inside a JumpThrough tile, spawning, falling through
\* and motionless.
SpawnedInWood(e) ==
    /\ HydratedNow(e)
    /\ pre.bodies[e].is_spawning
    /\ pre.bodies[e].fall_through
    /\ pre.bodies[e].velocity = [x |-> 0, y |-> 0]
    /\ tile_collision_filtered(pre.transforms[e], pre.bodies[e].shape, {"JumpThrough"})
           = "JumpThrough"

\* C9 as claimed: such a body is not on the ground at the end of its first tick.
C9_SpawnedInWoodAirborne ==
    TickDone => \A e \in Stepped : SpawnedInWood(e) => ~bodies[e].is_on_ground

\* C9 as amended: such a body is not on the ground at the end of its first tick
\* provided its ground probe meets no Solid tile; it is never on a platform, and it
\* is no longer spawning.
C9_SpawnedInWoodAirborneUnlessSolid ==
    TickDone =>
        \A e \in Stepped :
            SpawnedInWood(e) =>
                /\ ~bodies[e].is_spawning
                /\ ~bodies[e].is_on_platform
                /\ UnderProbe(e) # "Solid" => ~bodies[e].is_on_ground

C9_Witness ==
    /\ TickDone
    /\ \E e \in Stepped :
          SpawnedInWood(e) /\ UnderProbe(e) = "JumpThrough" /\ ~bodies[e].is_on_ground

\* C10: the Mover calls handle_teleport for a body at most once in a frame; at the
\* end of a tick it has called it once for each active body that was spawning and
\* not at all for the others, and no active body is spawning any more.
C10_TeleportOnce ==
    /\ \A e \in Entities : Len(StepCalls(e, {"handle_teleport"})) <= 1
    /\ TickDone =>
          \A e \in Stepped :
              /\ StepCalls(e, {"handle_teleport"}) =
                     IF pre.bodies[e].is_spawning THEN <<"handle_teleport">> ELSE <<>>
              /\ ~bodies[e].is_spawning

C10_Witness ==
    /\ TickDone
    /\ \E e \in Stepped : pre.bodies[e].is_spawning /\ ~HydratedNow(e)
    /\ \E e \in Stepped : ~pre.bodies[e].is_spawning


\* The body's shape was changed since the Collider last mirrored it.
ShapeChanged(e) == e \in DOMAIN pre.colliders /\ pre.colliders[e].shape # pre.bodies[e].shape

\* C11 as claimed: at the end of a tick the Collider of every body whose shape was
\* changed has the body's shape, whatever the body's other flags are.
C11_ShapeMirrored ==
    TickDone =>
        \A e \in DOMAIN pre.bodies : ShapeChanged(e) => colliders[e].shape = bodies[e].shape

\* C11 as amended: at the end of a tick the Collider of every body that is not
\* deactivated has the body's shape; the Collider of a deactivated body keeps the
\* shape it had, stale or not.
C11_ActiveShapeMirrored ==
    TickDone =>
        \A e \in DOMAIN pre.bodies :
            IF e \in Stepped
            THEN colliders[e].shape = bodies[e].shape
            ELSE colliders[e].shape = pre.colliders[e].shape

C11_Witness ==
    /\ TickDone
    /\ \E e \in Stepped : ShapeChanged(e)
    /\ \E e \in DOMAIN pre.bodies \ Stepped : ~ShapeChanged(e)


\* The world the Mover of the current frame started with.
PreWorld ==
    [bodies |-> pre.bodies, transforms |-> pre.transforms, colliders |-> pre.colliders,
     actors |-> actors, inserted |-> inserted,
     calls |-> <<>>, warns |-> {}, shove |-> NoShove, halt |-> "none"]

\* The tile kind the ground probe of e works with: a Collider that has passed into a
\* JumpThrough tile does not see JumpThrough tiles.
ProbeKind(e) ==
    IF colliders[e].seen_wood /\ UnderProbe(e) = "JumpThrough" THEN "Empty" ELSE UnderProbe(e)

C13_OverrideConsumed ==
    TickDone => \A e \in Stepped : bodies[e].frame_friction_override = <<>>


\* C14: at the end of a tick the Collider of every body is disabled exactly when the
\* body is deactivated.
C14_DisabledMirrored ==
    TickDone => \A e \in DOMAIN bodies : colliders[e].disabled = bodies[e].is_deactivated

\* One body was reactivated and another deactivated since their Colliders were
\* last written.
C14_Witness ==
    /\ TickDone
    /\ \E e \in DOMAIN pre.bodies : pre.colliders[e].disabled /\ ~pre.bodies[e].is_deactivated
    /\ \E e \in DOMAIN pre.bodies : ~pre.colliders[e].disabled /\ pre.bodies[e].is_deactivated


\* The farthest a falling body gets in one tick, ground probe included.
Reach == terminal_velocity * 2 + GroundProbeOffset

\* No tile is within reach of the shape at t.
InOpenSpace(t, shape) ==
    tile_collision(t, [shape EXCEPT !.hw = @ + Reach, !.hh = @ + Reach]) = "Empty"

\* e went into the tick as an active body with mass, in open space.
InFreeFall(e) ==
    /\ e \in Stepped
    /\ pre.bodies[e].has_mass
    /\ pre.bodies[e].gravity > 0
    /\ InOpenSpace(pre.transforms[e], pre.bodies[e].shape)

AtRest(e) == pre.bodies[e].velocity = [x |-> 0, y |-> 0]

\* C15 as claimed: a body in free fall that was at rest has, after the tick, a
\* downward velocity and a position lower by |velocity.y * time_factor|.
C15_FallsInFirstTick ==
    TickDone =>
        \A e \in DOMAIN pre.bodies :
            (InFreeFall(e) /\ AtRest(e)) =>
                /\ bodies[e].velocity.y < 0
                /\ transforms[e].y = pre.transforms[e].y - Abs(bodies[e].velocity.y * pre.tf)

\* C15 as amended: a body in free fall that was at rest has, after the tick, the
\* downward velocity gravity * time_factor (terminal_velocity at most) and the
\* position it had; a body in free fall that was falling is lower by
\* |velocity.y * time_factor|, with the velocity the tick started with.
C15_FallsFromSecondTick ==
    TickDone =>
        \A e \in DOMAIN pre.bodies :
            InFreeFall(e) =>
                /\ AtRest(e) =>
                      /\ bodies[e].velocity.y < 0
                      /\ bodies[e].velocity.y =
                             (IF pre.bodies[e].gravity * pre.tf > terminal_velocity
                              THEN -terminal_velocity ELSE -(pre.bodies[e].gravity * pre.tf))
                      /\ transforms[e].y = pre.transforms[e].y
                      /\ transforms[e].x = pre.transforms[e].x
                /\ pre.bodies[e].velocity.y < 0 =>
                      /\ bodies[e].velocity.y < pre.bodies[e].velocity.y
                             \/ bodies[e].velocity.y = -terminal_velocity
                      /\ transforms[e].y =
                             pre.transforms[e].y - Abs(pre.bodies[e].velocity.y * pre.tf)

C15_Witness ==
    /\ TickDone
    /\ \E e \in DOMAIN pre.bodies : InFreeFall(e) /\ AtRest(e)
    /\ \E e \in DOMAIN pre.bodies : InFreeFall(e) /\ pre.bodies[e].velocity.y < 0


\* C16: a tick leaves the vertical velocity of an active body without mass as it
\* was, unless the body bounced or ended the tick on the ground; a body without
\* mass whose vertical velocity was zero has zero vertical velocity and the same
\* vertical position after the tick, airborne or grounded.
C16_NoMassNoGravity ==
    TickDone =>
        \A e \in DOMAIN pre.bodies :
            ~pre.bodies[e].has_mass =>
                /\ (e \in Stepped /\ ~bodies[e].is_on_ground /\ Places("bounce_y", e) = {}) =>
                       bodies[e].velocity.y = pre.bodies[e].velocity.y
                /\ pre.bodies[e].velocity.y = 0 =>
                       /\ bodies[e].velocity.y = 0
                       /\ transforms[e].y = pre.transforms[e].y

C16_Witness ==
    /\ TickDone
    /\ ticks > 1
    /\ \E e \in Stepped :
          /\ ~pre.bodies[e].has_mass
          /\ pre.bodies[e].gravity > 0
          /\ pre.bodies[e].velocity.y = 0
          /\ ~pre.bodies[e].is_on_ground
          /\ ~bodies[e].is_on_ground
          /\ ~HydratedNow(e)


\* e went into the tick at rest: motionless, on the ground, with friction.
Resting(e) ==
    /\ e \in Stepped
    /\ AtRest(e)
    /\ pre.bodies[e].is_on_ground
    /\ pre.bodies[e].has_friction

\* C17: a tick leaves a zero horizontal velocity zero, for every body; a body at
\* rest that no wall had to be left behind by a nudge keeps its horizontal position.
C17_NoDrift ==
    TickDone =>
        \A e \in DOMAIN pre.bodies :
            /\ pre.bodies[e].velocity.x = 0 => bodies[e].velocity.x = 0
            /\ (Resting(e) /\ shove[e].iters = <<>>) =>
                   transforms[e].x = pre.transforms[e].x

C17_Witness ==
    /\ TickDone
    /\ \E e \in Stepped : Resting(e) /\ pre.bodies[e].is_on_platform /\ bodies[e].is_on_platform
    /\ \E e \in Stepped : Resting(e) /\ ~pre.bodies[e].is_on_platform /\ bodies[e].is_on_ground


\* The horizontal move of e, a moving body of bounciness 0.5, was stopped by a Solid
\* tile in the current frame.
HitWall(e) ==
    /\ e \in Stepped
    /\ Places("bounce_x", e) # {}
    /\ pre.bodies[e].bounciness = 50
    /\ pre.bodies[e].velocity.x # 0

Bounced(e) == Scale(pre.bodies[e].velocity.x, -50)

\* The bounced velocity after the friction of the ground.
Slowed(e) ==
    LET vx == Scale(Bounced(e),
                    IF pre.bodies[e].frame_friction_override # <<>>
                    THEN pre.bodies[e].frame_friction_override[1] ELSE friction_lerp)
    IN  IF Abs(vx) <= stop_threshold THEN 0 ELSE vx

\* C18 as claimed: a body that hit a wall has -0.5 times its velocity.x at the end
\* of the tick, grounded or airborne, with friction or without.
C18_BounceHalves ==
    TickDone => \A e \in DOMAIN pre.bodies : HitWall(e) => bodies[e].velocity.x = Bounced(e)

\* C18 as amended: a body that hit a wall has -0.5 times its velocity.x at the end
\* of the tick if it ends the tick airborne or has no friction; if it ends the tick
\* on the ground and has friction, the bounced velocity has been multiplied by the
\* friction factor and zeroed at the stop threshold.
C18_BounceHalvesThenFriction ==
    TickDone =>
        \A e \in DOMAIN pre.bodies :
            HitWall(e) =>
                bodies[e].velocity.x =
                    IF bodies[e].is_on_ground /\ bodies[e].has_friction
                    THEN Slowed(e) ELSE Bounced(e)

C18_Witness ==
    /\ TickDone
    /\ \E e \in DOMAIN pre.bodies :
          HitWall(e) /\ bodies[e].is_on_ground /\ bodies[e].has_friction
    /\ \E e \in DOMAIN pre.bodies :
          HitWall(e) /\ ~bodies[e].is_on_ground /\ bodies[e].velocity.x = -4


\* The world in the step of e when its ground check begins (physics.rs:148-238).
BeforeGroundCheck(w, e, tf) ==
    MoveBody(Descent(Spawning(SyncShape(
        ShoveOutOfWalls([w EXCEPT !.colliders[e].disabled = FALSE], e), e), e), e), e, tf)

GroundFlags(w, e) ==
    <<w.bodies[e].is_on_ground, w.bodies[e].is_on_platform, w.bodies[e].fall_through>>

\* C19: the ground check of an active body's step gave the ground flags the body
\* has at the end of the tick, and a second ground check run right after the first,
\* with the body where it was, gives the same is_on_ground, is_on_platform and
\* fall_through.
C19_GroundCheckIdempotent ==
    TickDone =>
        \A e \in Stepped :
            LET once == GroundCheck(BeforeGroundCheck(PreWorld, e, pre.tf), e)
                twice == GroundCheck(once, e)
            IN  /\ GroundFlags(once, e) =
                       <<bodies[e].is_on_ground, bodies[e].is_on_platform,
                         bodies[e].fall_through>>
                /\ once.transforms[e].y = transforms[e].y
                /\ GroundFlags(twice, e) = GroundFlags(once, e)

\* The ground check found the body motionless inside a JumpThrough tile and made it
\* fall through.
C19_Witness ==
    /\ TickDone
    /\ \E e \in Stepped :
          /\ ~pre.bodies[e].fall_through
          /\ bodies[e].fall_through
          /\ UnderProbe(e) = "JumpThrough"
    /\ \E e \in Stepped : bodies[e].is_on_platform


\* The loop of the Mover taken in the other order, from the last entity down.
RECURSIVE StepDown(_, _, _)
StepDown(w, e, tf) ==
    IF e < 1 \/ w.halt # "none" THEN w
    ELSE StepDown(IF e \in DOMAIN w.bodies THEN StepBody(w, e, tf) ELSE w, e - 1, tf)

\* C20: the step of a body leaves the body, transform and Collider of every other
\* entity as they were, and the Mover that steps the bodies in the other order ends
\* the tick with the same bodies, transforms and Colliders.
C20_StepsIndependent ==
    TickDone =>
        /\ \A e \in DOMAIN pre.bodies :
               LET one == StepBody(PreWorld, e, pre.tf)
               IN  \A o \in DOMAIN pre.bodies \ {e} :
                       /\ one.bodies[o] = pre.bodies[o]
                       /\ one.transforms[o] = pre.transforms[o]
                       /\ one.colliders[o] = pre.colliders[o]
        /\ LET other == StepDown(update(PreWorld), MaxEntities, pre.tf)
           IN  /\ other.halt = "none"
               /\ other.bodies = bodies
               /\ other.transforms = transforms
               /\ other.colliders = colliders

C20_Witness ==
    /\ TickDone
    /\ Cardinality(Stepped) = 2
    /\ \A e \in Stepped : transforms[e] # pre.transforms[e] /\ bodies[e] # pre.bodies[e]
    /\ \E e \in Stepped, o \in Stepped : bodies[e].shape # bodies[o].shape


---------------------------------------------------------------------------
(* What the claims on the Storage speak of.                                *)

\* No load response has reached the Storage: it holds no data and none waits in
\* the channel of its receiver.
NotYetLoaded ==
    /\ storage.data = None
    /\ storage.data_receiver = None \/ inbox.data = <<>>

\* The step is a call of one of the methods `ops`.
CallOf(ops) == returned'.n = returned.n + 1 /\ returned'.op \in ops

\* C21: a call of try_get, try_set or try_save made while no load response has
\* reached the Storage returns Err(NotLoaded), leaves the Storage as it was and
\* sends no request; the file and the waiting responses are as they were.
C21_NotLoadedFails ==
    [][(NotYetLoaded /\ CallOf({"try_get", "try_set", "try_save"})) =>
           /\ returned'.ret = Err("NotLoaded")
           /\ storage' = storage
           /\ requests' = requests
           /\ inbox' = inbox
           /\ file' = file]_vars

\* try_set has just failed with NotLoaded while a Load request was on its way.
C21_Witness ==
    /\ returned.op = "try_set"
    /\ returned.ret = Err("NotLoaded")
    /\ storage.data_receiver # None
    /\ Len(requests) = 1
    /\ requests[1].op = "Load"


\* C22: while the backend task keeps running, a try_load that returned Ok leads to
\* a state in which is_loaded returns true; data that has been loaded never goes
\* away, and what is_loaded returned is whether data is loaded, so that once a call
\* of is_loaded has returned true every later call does.
C22_EventuallyLoaded ==
    /\ (returned.op = "try_load" /\ returned.ret = Ok(<<>>))
           ~> (is_loaded(Platform).ret = Bool(TRUE))
    /\ [][storage.data # None => storage'.data # None]_vars
    /\ [](returned.op = "is_loaded" => returned.ret = Bool(storage.data # None))

\* try_load has been called again while the first Load request was still waiting.
C22_Witness ==
    /\ returned.op = "try_load"
    /\ returned.ret = Ok(<<>>)
    /\ storage.data = None
    /\ Len(requests) = 2
    /\ requests[1].op = "Load"
    /\ requests[2].op = "Load"


\* The step is a turn of the backend task that handles a Save request to its end.
SaveHandled ==
    /\ returned' = returned
    /\ task = "running"
    /\ task' = "running"
    /\ requests # <<>>
    /\ Head(requests).op = "Save"
    /\ requests' = Tail(requests)

\* C23: a call of try_set leaves the file and the requests as they were and, when
\* it succeeds, changes the in-memory value of its key only; a try_save that
\* succeeds sends one Save request holding the in-memory data of that moment; a
\* request that has been sent is never changed; and the file changes only in a
\* turn of the task that handles a Save request, which, handled to its end, leaves
\* the file holding the data of the request.
C23_SaveWritesSnapshot ==
    /\ [][CallOf({"try_set"}) =>
              /\ file' = file
              /\ requests' = requests
              /\ returned'.ret = Ok(<<>>) =>
                     storage'.data[1] =
                         [check_pending_data_load(Platform).storage.data[1]
                              EXCEPT ![returned'.arg[1]] =
                                         Some(to_value(returned'.arg[2]))]]_vars
    /\ [][(CallOf({"try_save"}) /\ returned'.ret.is = "Ok") =>
              /\ file' = file
              /\ requests' = Append(requests,
                                    [op |-> "Save", result_sender |-> returned'.n,
                                     data |-> storage'.data[1]])]_vars
    /\ [][\A i \in 1 .. Len(requests') :
              \/ i <= Len(requests) /\ requests'[i] = requests[i]
              \/ i + 1 <= Len(requests) /\ requests'[i] = requests[i + 1]
              \/ i = Len(requests) + 1]_vars
    /\ [][file' # file =>
              /\ returned' = returned
              /\ requests # <<>>
              /\ Head(requests).op = "Save"]_vars
    /\ [][SaveHandled => file' = FileOf(to_string(Head(requests).data))]_vars

\* A set was made after the try_save whose request still waits: the data the
\* request holds differs from the data in memory.
C23_Witness ==
    /\ returned.op = "try_set"
    /\ returned.ret = Ok(<<>>)
    /\ Len(requests) = 1
    /\ requests[1].op = "Save"
    /\ requests[1].data # storage.data[1]


---------------------------------------------------------------------------
(* What the claims on the ground check speak of.                           *)

\* The ground check of the body has been run.
Probed == ticks = 1

\* The tile kind at the body's position lowered by the probe's offset; JumpThrough
\* tiles are left out when the Collider's seen_wood is set.
KindBelow(e) ==
    tile_collision_filtered(
        [transforms[e] EXCEPT !.y = @ - GroundProbeOffset], bodies[e].shape,
        IF colliders[e].seen_wood THEN {"Solid"} ELSE TileKinds)

\* C24: after the ground check, with K the tile kind at the position lowered by 0.1
\* (JumpThrough left out when seen_wood is set), is_on_ground is K # Empty and not
\* (K = JumpThrough and fall_through), and is_on_platform is is_on_ground and
\* K = JumpThrough.
C24_GroundClassification ==
    Probed =>
        \A e \in DOMAIN bodies :
            LET K == KindBelow(e)
            IN  /\ bodies[e].is_on_ground <=>
                       (K # "Empty" /\ ~(K = "JumpThrough" /\ bodies[e].fall_through))
                /\ bodies[e].is_on_platform <=>
                       (bodies[e].is_on_ground /\ K = "JumpThrough")
                /\ transforms[e] = pre.transforms[e]
                /\ colliders[e] = pre.colliders[e]

\* A body whose Collider has seen_wood set is over a JumpThrough tile and nothing
\* else: the probe leaves the tile out.
C24_Witness ==
    /\ Probed
    /\ colliders[1].seen_wood
    /\ ~bodies[1].fall_through
    /\ UnderProbe(1) = "JumpThrough"
    /\ KindBelow(1) = "Empty"
    /\ ~bodies[1].is_on_ground


---------------------------------------------------------------------------
(* What the claims on the motionless body inside a JumpThrough tile speak  *)
(* of.                                                                     *)

\* The world of the tick right before the ground check of e's step.
AtGroundCheck(e) == BeforeGroundCheck(PreWorld, e, pre.tf)

\* physics.rs:246-253: the ground check of e's step finds the body with velocity
\* (0,0) and overlapping a JumpThrough tile.
Motionless(e) ==
    LET w == AtGroundCheck(e)
    IN  /\ w.bodies[e].velocity = [x |-> 0, y |-> 0]
        /\ tile_collision_filtered(w.transforms[e], w.bodies[e].shape, {"JumpThrough"})
               = "JumpThrough"

\* C25 as claimed: when the ground check finds an active body motionless and
\* overlapping a JumpThrough tile, the ground classification of this tick is
\* computed with the fall_through the body had before the check.
C25_FallThroughNextTick ==
    TickDone =>
        \A e \in Stepped :
            Motionless(e) =>
                LET K == GroundTile(AtGroundCheck(e), e)
                    before == AtGroundCheck(e).bodies[e].fall_through
                IN  /\ bodies[e].fall_through
                    /\ bodies[e].is_on_ground <=>
                           (K # "Empty" /\ ~(K = "JumpThrough" /\ before))

\* C25 as amended: when the ground check finds an active body motionless and
\* overlapping a JumpThrough tile, fall_through is true at the end of the tick and
\* the ground classification of this same tick is computed with it: the body is on
\* the ground only when the probe meets a Solid tile, and is not on a platform. A
\* body the check does not find so keeps the fall_through it had.
C25_FallThroughThisTick ==
    TickDone =>
        \A e \in Stepped :
            LET K == GroundTile(AtGroundCheck(e), e)
            IN  /\ Motionless(e) =>
                       /\ bodies[e].fall_through
                       /\ bodies[e].is_on_ground <=> K = "Solid"
                       /\ ~bodies[e].is_on_platform
                /\ ~Motionless(e) => bodies[e].fall_through = pre.bodies[e].fall_through

\* A body that did not fall through before the tick is found motionless inside a
\* JumpThrough tile with a JumpThrough tile under its probe, and is airborne at the
\* end of this tick.
C25_Witness ==
    /\ TickDone
    /\ \E e \in Stepped :
          /\ Motionless(e)
          /\ ~pre.bodies[e].fall_through
          /\ GroundTile(AtGroundCheck(e), e) = "JumpThrough"
          /\ bodies[e].fall_through
          /\ ~bodies[e].is_on_ground


---------------------------------------------------------------------------
(* What the claims on the nudges of the de-penetration loop speak of.      *)

\* The de-penetration loop of the body has been run.
Shoved == ticks = 1 /\ pre # NoPre

\* The iterations of the loop that probed the corners.
Iterations == 1 .. Len(shove[1].iters)

\* The place an iteration leaves the body at, seen from where it found it.
Moved(it) == <<it.to.x - it.at.x, it.to.y - it.at.y>>

\* C26: an iteration of the de-penetration loop of a has_mass body that overlaps a
\* Solid tile, whose corner probes have exactly one pair of adjacent corners clear
\* and the other two solid, moves the body by exactly one unit toward the clear
\* side (top pair: y + 1; right pair: x + 1; bottom pair: y - 1; left pair: x - 1),
\* leaves the other coordinate alone, and the body is at that place when the next
\* iteration, or the rest of the step, starts.
C26_NudgeTowardClearSide ==
    Shoved =>
        \A i \in Iterations :
            LET it == shove[1].iters[i]
                c == it.corners
            IN  /\ pre.bodies[1].has_mass
                /\ tile_collision(it.at, pre.bodies[1].shape) = "Solid"
                /\ it.at = IF i = 1 THEN pre.transforms[1] ELSE shove[1].iters[i - 1].to
                /\ i = Len(shove[1].iters) /\ halt = "none" => transforms[1] = it.to
                /\ it.to.rot = it.at.rot
                /\ c = <<FALSE, FALSE, TRUE, TRUE>> => Moved(it) = <<0, Nudge>>
                /\ c = <<TRUE, FALSE, FALSE, TRUE>> => Moved(it) = <<Nudge, 0>>
                /\ c = <<TRUE, TRUE, FALSE, FALSE>> => Moved(it) = <<0, -Nudge>>
                /\ c = <<FALSE, TRUE, TRUE, FALSE>> => Moved(it) = <<-Nudge, 0>>

\* An iteration found the left pair of corners clear and the right pair solid, and
\* the loop has left the body to the left of where it found it.
C26_Witness ==
    /\ Shoved
    /\ \E i \in Iterations :
          /\ shove[1].iters[i].corners = <<FALSE, TRUE, TRUE, FALSE>>
          /\ Moved(shove[1].iters[i]) = <<-Nudge, 0>>
          /\ transforms[1].x < pre.transforms[1].x


\* physics.rs:190-193: the nudge patterns that match the corner probes c, each taken
\* by itself: (false, false, _, _), (_, false, false, _), (_, _, false, false),
\* (false, _, _, false).
Applies(c) ==
    {arm \in {"up", "right", "down", "left"} :
        \/ arm = "up" /\ ~c[1] /\ ~c[2]
        \/ arm = "right" /\ ~c[2] /\ ~c[3]
        \/ arm = "down" /\ ~c[3] /\ ~c[4]
        \/ arm = "left" /\ ~c[1] /\ ~c[4]}

\* The move of a nudge arm.
Direction(arm) ==
    IF arm = "up" THEN <<0, Nudge>>
    ELSE IF arm = "right" THEN <<Nudge, 0>>
    ELSE IF arm = "down" THEN <<0, -Nudge>>
    ELSE IF arm = "left" THEN <<-Nudge, 0>>
    ELSE <<0, 0>>

AllClear == <<FALSE, FALSE, FALSE, FALSE>>

ClearCorners(c) == {k \in 1 .. 4 : ~c[k]}

\* C27 as claimed: for the corner probes of every iteration that reaches the nudge
\* patterns, at most one pattern applies, and the nudge is the same when the
\* patterns are tested in the opposite order.
C27_PatternsExclusive ==
    Shoved =>
        \A i \in Iterations :
            LET it == shove[1].iters[i]
                c == it.corners
            IN  c # AllClear =>
                    /\ Cardinality(Applies(c)) <= 1
                    /\ Moved(it) = Direction(MatchCorners_Reversed(c))

\* C27 as amended: the patterns overlap.  With exactly three corners clear two
\* patterns apply, with fewer clear corners at most one; the nudge is that of the
\* first pattern that applies in the order top, right, bottom, left, and it is the
\* same in any order only when at most one pattern applies.
C27_FirstPatternWins ==
    Shoved =>
        \A i \in Iterations :
            LET it == shove[1].iters[i]
                c == it.corners
                A == Applies(c)
                first == IF "up" \in A THEN "up"
                         ELSE IF "right" \in A THEN "right"
                         ELSE IF "down" \in A THEN "down"
                         ELSE IF "left" \in A THEN "left"
                         ELSE "none"
            IN  c # AllClear =>
                    /\ Cardinality(A) <= 2
                    /\ Cardinality(A) = 2 <=> Cardinality(ClearCorners(c)) = 3
                    /\ Moved(it) = Direction(first)
                    /\ Cardinality(A) <= 1 =>
                           Moved(it) = Direction(MatchCorners_Reversed(c))
                    /\ c = <<FALSE, FALSE, FALSE, TRUE>> => Moved(it) = <<0, Nudge>>
                    /\ c = <<FALSE, FALSE, TRUE, FALSE>> => Moved(it) = <<0, Nudge>>
                    /\ c = <<TRUE, FALSE, FALSE, FALSE>> => Moved(it) = <<Nudge, 0>>
                    /\ c = <<FALSE, TRUE, FALSE, FALSE>> => Moved(it) = <<0, -Nudge>>

\* An iteration found the bottom left corner solid and the three others clear: the
\* top pattern and the right pattern both apply, and the body has been moved up.
C27_Witness ==
    /\ Shoved
    /\ \E i \in Iterations :
          /\ shove[1].iters[i].corners = <<FALSE, FALSE, FALSE, TRUE>>
          /\ Applies(shove[1].iters[i].corners) = {"up", "right"}
          /\ Moved(shove[1].iters[i]) = <<0, Nudge>>


---------------------------------------------------------------------------
(* What the claims on deactivated bodies speak of.                         *)

\* The bodies the Mover found deactivated.
Skipped == {e \in DOMAIN pre.bodies : pre.bodies[e].is_deactivated}

\* The calls the Mover made for e, of whatever kind.
AllStepCalls(e) == SelectSeq(MoverCalls, LAMBDA c : c[2] = e)

---------------------------------------------------------------------------
(* What the claims on hydration speak of.                                  *)

\* Hydration is the next system to run.
BeforeHydration == halt = "none" /\ Slot = 1

\* Hydration has run in this tick and the Mover has not.
Hydrated == halt = "none" /\ cursor = 2

\* The world but for the call log.
Components(w) == <<w.bodies, w.transforms, w.colliders, w.actors, w.inserted>>

\* C29: hydration leaves the Collider of a body that has one as it is and does not
\* call handle_teleport for it, and leaves every KinematicBody and transform as it
\* is; and once hydration has run, running it a second time inserts no Collider,
\* changes no Collider and calls handle_teleport for no body.
C29_HydrationIdempotent ==
    /\ BeforeHydration =>
          LET once == hydrate_physics_bodies(World)
          IN  /\ \A e \in DOMAIN bodies \cap DOMAIN colliders :
                    /\ once.colliders[e] = colliders[e]
                    /\ once.inserted[e] = inserted[e]
                    /\ \A i \in 1 .. Len(once.calls) : once.calls[i][2] # e
              /\ once.bodies = bodies
              /\ once.transforms = transforms
              /\ needs_hydrate(once) = {}
    /\ Hydrated =>
          LET twice == hydrate_physics_bodies(World)
          IN  /\ Components(twice) = Components(World)
              /\ twice.calls = Append(calls, <<"hydrate_physics_bodies", 0>>)

\* Hydration has run in a tick in which one body had a Collider, disabled in an
\* earlier tick, and another body had none: it has inserted the Collider of the
\* second and has not touched the first.
C29_Witness ==
    /\ Hydrated
    /\ \E e \in DOMAIN bodies, o \in DOMAIN bodies :
          /\ Places("handle_teleport", o) # {}
          /\ Places("handle_teleport", e) = {}
          /\ colliders[e].disabled
          /\ ~colliders[o].disabled
          /\ ticks > 1


---------------------------------------------------------------------------
(* What the claims on the move step speak of.                              *)

\* The world of the tick right before the move step of e's step.
AtMove(e) ==
    Descent(Spawning(SyncShape(
        ShoveOutOfWalls([PreWorld EXCEPT !.colliders[e].disabled = FALSE], e), e), e), e)

\* The vertical move of e's step, with the collision it reports.
VerticalMove(e) ==
    move_vertical(AtMove(e), e, AtMove(e).bodies[e].velocity.y * pre.tf)

\* The horizontal move of e's step, by the velocity.x the body had before the move
\* step, with the collision it reports.
HorizontalMove(e) ==
    move_horizontal(VerticalMove(e).w, e, AtMove(e).bodies[e].velocity.x * pre.tf)

\* C30: in the move step of an active body velocity.y is multiplied by -bounciness
\* exactly when move_vertical reports a collision and velocity.x exactly when
\* move_horizontal reports one, a component whose move reports no collision is left
\* as it was, and the horizontal move is made by the velocity.x of before the move
\* step, whether or not the vertical move bounced.
C30_BounceOnCollision ==
    TickDone =>
        \A e \in Stepped :
            LET before == AtMove(e).bodies[e]
                after == MoveBody(AtMove(e), e, pre.tf)
                bounces == (IF VerticalMove(e).collided THEN <<"bounce_y">> ELSE <<>>)
                           \o (IF HorizontalMove(e).collided THEN <<"bounce_x">> ELSE <<>>)
            IN  /\ after.bodies[e].velocity.y =
                       IF VerticalMove(e).collided
                       THEN Scale(before.velocity.y, -before.bounciness)
                       ELSE before.velocity.y
                /\ after.bodies[e].velocity.x =
                       IF HorizontalMove(e).collided
                       THEN Scale(before.velocity.x, -before.bounciness)
                       ELSE before.velocity.x
                /\ after.bodies[e] = [before EXCEPT !.velocity = after.bodies[e].velocity]
                /\ after.transforms[e] = HorizontalMove(e).w.transforms[e]
                /\ StepCalls(e, {"bounce_y", "bounce_x"}) = bounces
                /\ transforms[e].x = HorizontalMove(e).w.transforms[e].x
                /\ transforms[e].y = HorizontalMove(e).w.transforms[e].y

\* A bouncy body that moves sideways has hit the floor: its vertical move reported a
\* collision and has reflected velocity.y, and its horizontal move, which reported
\* none, has moved it.
C30_Witness ==
    /\ TickDone
    /\ \E e \in Stepped :
          /\ AtMove(e).bodies[e].bounciness > 0
          /\ AtMove(e).bodies[e].velocity.x # 0
          /\ VerticalMove(e).collided
          /\ Scale(AtMove(e).bodies[e].velocity.y, -AtMove(e).bodies[e].bounciness) > 0
          /\ ~HorizontalMove(e).collided
          /\ transforms[e].x # pre.transforms[e].x


---------------------------------------------------------------------------
(* What the claims on friction, settling and gravity speak of.             *)

\* The body of e right after the ground check of its step.
Checked(e) == GroundCheck(AtGroundCheck(e), e).bodies[e]

\* physics.rs:284-288: velocity.x times the friction factor of the tick.
Rubbed(e) ==
    Scale(Checked(e).velocity.x,
          IF Checked(e).frame_friction_override # <<>>
          THEN Checked(e).frame_friction_override[1] ELSE friction_lerp)

\* C31 as claimed: for a grounded active body with has_friction, velocity.x at the
\* end of the tick is 0 when the magnitude of the product is below stop_threshold
\* and is the product when its magnitude is at or above stop_threshold.
C31_StopBelowThreshold ==
    TickDone =>
        \A e \in Stepped :
            (Checked(e).is_on_ground /\ Checked(e).has_friction) =>
                /\ Abs(Rubbed(e)) < stop_threshold => bodies[e].velocity.x = 0
                /\ Abs(Rubbed(e)) >= stop_threshold => bodies[e].velocity.x = Rubbed(e)

\* C31 as amended: for a grounded active body with has_friction, velocity.x at the
\* end of the tick is the product of velocity.x and the tick's friction factor
\* (frame_friction_override when present, friction_lerp otherwise), set to 0 when
\* its magnitude is at or below stop_threshold and kept when it is above; a body
\* that is airborne or has no friction keeps the velocity.x of after its move step.
C31_StopAtThreshold ==
    TickDone =>
        \A e \in Stepped :
            IF Checked(e).is_on_ground /\ Checked(e).has_friction
            THEN /\ Abs(Rubbed(e)) <= stop_threshold => bodies[e].velocity.x = 0
                 /\ Abs(Rubbed(e)) > stop_threshold => bodies[e].velocity.x = Rubbed(e)
            ELSE bodies[e].velocity.x = Checked(e).velocity.x

\* A grounded body with friction whose product is exactly stop_threshold has been
\* stopped, in a tick without override.
C31_Witness ==
    /\ TickDone
    /\ \E e \in Stepped :
          /\ Checked(e).is_on_ground
          /\ Checked(e).has_friction
          /\ Checked(e).frame_friction_override = <<>>
          /\ Abs(Rubbed(e)) = stop_threshold
          /\ bodies[e].velocity.x = 0


\* C32: at the end of every tick in which an active body is grounded, velocity.y
\* is 0 or greater than the gravity constant of the tuning configuration, with
\* friction or without: it is the velocity.y of after the ground check, multiplied
\* by friction_lerp when the body has friction, and set to 0 when that is at or
\* below the gravity constant.
C32_GroundedSettles ==
    TickDone =>
        \A e \in Stepped :
            bodies[e].is_on_ground =>
                LET vy == IF bodies[e].has_friction
                          THEN Scale(Checked(e).velocity.y, friction_lerp)
                          ELSE Checked(e).velocity.y
                IN  /\ bodies[e].velocity.y = 0 \/ bodies[e].velocity.y > gravity_constant
                    /\ bodies[e].velocity.y = IF vy <= gravity_constant THEN 0 ELSE vy

\* A grounded body without friction came out of its ground check with a velocity.y
\* that is not 0 and not above the gravity constant, and has velocity.y = 0 at the
\* end of the tick.
C32_Witness ==
    /\ TickDone
    /\ \E e \in Stepped :
          /\ bodies[e].is_on_ground
          /\ ~bodies[e].has_friction
          /\ Checked(e).velocity.y # 0
          /\ Checked(e).velocity.y <= gravity_constant
          /\ bodies[e].velocity.y = 0


\* The body of e right after the ground policy of its step.
Settled(e) == GroundPolicy(GroundCheck(AtGroundCheck(e), e), e).bodies[e]

\* C33: in a tick that an active has_mass body ends airborne, velocity.y is the
\* velocity.y of before minus gravity * time_factor, or -terminal_velocity if that
\* is lower, so velocity.y >= -terminal_velocity at the end of the tick; in a tick
\* that a body ends grounded, or for a body without mass, gravity is not subtracted.
C33_GravityClamped ==
    TickDone =>
        \A e \in Stepped :
            LET vy == Settled(e).velocity.y
                fallen == vy - bodies[e].gravity * pre.tf
            IN  IF ~bodies[e].is_on_ground /\ bodies[e].has_mass
                THEN /\ bodies[e].velocity.y =
                            IF fallen < -terminal_velocity THEN -terminal_velocity ELSE fallen
                     /\ bodies[e].velocity.y >= -terminal_velocity
                ELSE bodies[e].velocity.y = vy

\* An airborne body with mass has been held at the terminal velocity: gravity would
\* have taken its velocity.y below it.
C33_Witness ==
    /\ TickDone
    /\ \E e \in Stepped :
          /\ ~bodies[e].is_on_ground
          /\ bodies[e].has_mass
          /\ Settled(e).velocity.y - bodies[e].gravity * pre.tf < -terminal_velocity
          /\ bodies[e].velocity.y = -terminal_velocity


---------------------------------------------------------------------------
(* What the claims on the ground flags over consecutive ticks speak of.    *)

\* C34: after the step of an active body was_on_ground is the is_on_ground the body
\* had right before the step; a deactivated body keeps both.
C34_WasOnGroundDelayed ==
    TickDone =>
        /\ \A e \in Stepped : bodies[e].was_on_ground = pre.bodies[e].is_on_ground
        /\ \A e \in Skipped :
              /\ bodies[e].was_on_ground = pre.bodies[e].was_on_ground
              /\ bodies[e].is_on_ground = pre.bodies[e].is_on_ground

\* A body that was grounded two ticks ago and airborne in the tick before is on
\* the ground again: was_on_ground is false and is_on_ground is true.
C34_Witness ==
    /\ TickDone
    /\ ticks > 1
    /\ \E e \in Stepped :
          /\ bodies[e].is_on_ground
          /\ ~bodies[e].was_on_ground
          /\ ~pre.bodies[e].is_on_ground
          /\ pre.bodies[e].was_on_ground


---------------------------------------------------------------------------
(* What the claims on bodies without a Transform speak of.                 *)

\* The bodies that have no Transform.
Bare == DOMAIN bodies \ DOMAIN transforms

\* C35 as claimed: the Mover does not step a body that has no Transform, and such a
\* body does not make the tick fail: the Mover returns and every active body that
\* has a Transform has had its ground probe.
C35_BareBodySkipped ==
    (MoverEntered /\ pre # NoPre /\ Bare # {}) =>
        /\ halt # "panic"
        /\ \A e \in Bare : AllStepCalls(e) = <<>>
        /\ \A e \in Stepped \ Bare : StepCalls(e, {"ground_probe"}) = <<"ground_probe">>


---------------------------------------------------------------------------
(* What the claims on rotation speak of.                                   *)

\* The tick has changed the rotation angle of e.
Spun(e) == transforms[e].rot # pre.transforms[e].rot

\* C36: a tick leaves the rotation angle of an active body as it was when the body
\* ends the tick grounded and its shape is not a circle, can_rotate or not, and
\* when can_rotate is clear; a body whose angle the tick has changed has can_rotate
\* set and is airborne or a circle.
C36_GroundedBoxKeepsAngle ==
    TickDone =>
        \A e \in Stepped :
            /\ (bodies[e].is_on_ground /\ bodies[e].shape.kind # "Circle") => ~Spun(e)
            /\ ~bodies[e].can_rotate => ~Spun(e)
            /\ Spun(e) =>
                   /\ bodies[e].can_rotate
                   /\ ~bodies[e].is_on_ground \/ bodies[e].shape.kind = "Circle"

\* A box with can_rotate set that was spun while it fell is on the ground, moves
\* sideways, and has kept its angle in this tick.
C36_Witness ==
    /\ TickDone
    /\ \E e \in Stepped :
          /\ bodies[e].can_rotate
          /\ bodies[e].shape.kind = "Box"
          /\ bodies[e].angular_velocity # 0
          /\ bodies[e].is_on_ground
          /\ bodies[e].velocity.x # 0
          /\ transforms[e].rot # 0
          /\ ~Spun(e)


---------------------------------------------------------------------------
(* What the claims on the fall_through latch speak of.                     *)

\* C37: the Mover never clears fall_through: a body whose fall_through is true
\* before the Mover runs has it true after, stepped or passed over, and the Mover
\* sets it only for a body that its ground check finds motionless inside a
\* JumpThrough tile.
C37_FallThroughKept ==
    (MoverEntered /\ pre # NoPre) =>
        /\ \A e \in DOMAIN pre.bodies : pre.bodies[e].fall_through => bodies[e].fall_through
        /\ TickDone =>
              \A e \in Stepped :
                  (bodies[e].fall_through /\ ~pre.bodies[e].fall_through) => Motionless(e)

\* A body whose fall_through was set before the tick still has it after a later
\* tick, in which it is on the ground and is not found motionless inside a
\* JumpThrough tile.
C37_Witness ==
    /\ TickDone
    /\ ticks > 1
    /\ \E e \in Stepped :
          /\ pre.bodies[e].fall_through
          /\ bodies[e].fall_through
          /\ bodies[e].is_on_ground
          /\ ~Motionless(e)


---------------------------------------------------------------------------
(* What the claims on bodies that stand on a JumpThrough tile speak of.    *)

\* The tile kind met by the body of e as the tick found it, moved up by dy.
KindAt(e, dy) ==
    tile_collision([pre.transforms[e] EXCEPT !.y = @ + dy], pre.bodies[e].shape)

\* The tick found e motionless, with fall_through clear, on top of a JumpThrough
\* tile: the body touches the tile's upper edge and is clear of every tile when it
\* is moved up by the least amount.
Perched(e) ==
    /\ pre.bodies[e].velocity = [x |-> 0, y |-> 0]
    /\ ~pre.bodies[e].fall_through
    /\ KindAt(e, 0) = "JumpThrough"
    /\ KindAt(e, 1) = "Empty"

\* The tick found e motionless, with fall_through clear, at rest over a JumpThrough
\* tile where a vertical move stops it: the body is clear of every tile and meets
\* the tile when it is moved down by the offset of the ground probe.
Landed(e) ==
    /\ pre.bodies[e].velocity = [x |-> 0, y |-> 0]
    /\ ~pre.bodies[e].fall_through
    /\ KindAt(e, 0) = "Empty"
    /\ KindAt(e, -GroundProbeOffset) = "JumpThrough"

\* The tick has left e on the platform, where it was, with fall_through clear.
Stays(e) ==
    /\ bodies[e].is_on_ground
    /\ bodies[e].is_on_platform
    /\ ~bodies[e].fall_through
    /\ transforms[e] = pre.transforms[e]
    /\ bodies[e].velocity = [x |-> 0, y |-> 0]

\* C38: a motionless active body with fall_through clear that touches the upper
\* edge of a JumpThrough tile without being inside it is on the ground and on the
\* platform at the end of the tick, where it was, with fall_through clear and
\* velocity (0,0), so that the next tick finds it the same.
C38_PerchedStays ==
    TickDone => \A e \in Stepped : Perched(e) => Stays(e)


\* A body at rest over a JumpThrough tile where a vertical move stops it does stay.
LandedStays == TickDone => \A e \in Stepped : Landed(e) => Stays(e)


---------------------------------------------------------------------------
(* What the claims on the round trip through the storage file speak of.    *)

\* get(k) has returned at the end of the sequence set(k, v); save(); load(); get(k)
\* and the response of that load has been received.
TripDone == returned.trip.stage = 4 /\ storage.data_receiver = None

\* C39 as claimed: at the end of the sequence set(k, v); save(); load(); get(k),
\* each call returning Ok and no other save sent in between, once the response of
\* the load has been received, get(k) has returned v.
C39_RoundTrip == TripDone => returned.ret = Ok(Some(returned.trip.value))

\* C39 as amended: the same, provided no earlier load was awaiting its response
\* when set(k, v) was called.
C39_RoundTripAfterLoad ==
    (TripDone /\ returned.trip.clean) =>
        /\ returned.ret = Ok(Some(returned.trip.value))
        /\ storage.data = Some(from_slice(file.contents).data)

\* The sequence has ended with get(k) returning 2, with no load awaiting its response
\* when set(k, 2) returned: the save has been answered, no request is left, and the
\* file holds what the cache holds.
C39_Witness ==
    /\ TripDone
    /\ returned.trip.clean
    /\ returned.ret = Ok(Some(2))
    /\ requests = <<>>
    /\ inbox.saved # {}
    /\ file = FileOf(to_string(storage.data[1]))

====
